---- MODULE Spec2Model ----
(***************************************************************************)
(* Model of the serde-iop TLV codec (src/serde-iop): the primitive packer  *)
(* (ser/pack.rs), the structured encoder (ser/mod.rs), the binary reader   *)
(* (de/read.rs) and the structured decoder (de/mod.rs).                    *)
(*                                                                         *)
(* Integers are kept as little-endian two's-complement byte sequences of   *)
(* the width of their Rust type, so that `as` casts are truncations and    *)
(* sign/zero extensions and to_le_bytes is the byte sequence itself.       *)
(***************************************************************************)
EXTENDS Integers, Sequences, FiniteSets, TLC

VARIABLES
    ser,     \* Serializer: output buffer, current tag, finished StructSerializers
    de,      \* Deserializer: BinReader (slice, total_read_len, current_hdr), current tag
    input,   \* the byte slice the BinReader was created on
    value,   \* the typed value handed to to_bytes / expected from from_bytes
    call     \* the last operation run, its arguments and its result

vars == <<ser, de, input, value, call>>

None == <<>>

Some(x) == <<x>>

\* ------------------------------------------------------------------------
\* Bytes and fixed-width integers

U8_MAX == 255

U16_MAX == 65535

I32_MAX == 2147483647

I32_MIN == -I32_MAX - 1

RECURSIVE XorBits(_, _, _)
XorBits(a, b, n) ==
    IF n = 0 THEN 0
    ELSE (((a % 2) + (b % 2)) % 2) + 2 * XorBits(a \div 2, b \div 2, n - 1)

RECURSIVE OrBits(_, _, _)
OrBits(a, b, n) ==
    IF n = 0 THEN 0
    ELSE (IF a % 2 = 1 \/ b % 2 = 1 THEN 1 ELSE 0) + 2 * OrBits(a \div 2, b \div 2, n - 1)

XorBytes(a, b) == [i \in 1..Len(a) |-> XorBits(a[i], b[i], 8)]

OrBytes(a, b) == [i \in 1..Len(a) |-> OrBits(a[i], b[i], 8)]

\* two's-complement little-endian image of the integer v on k bytes
RECURSIVE ToLE(_, _)
ToLE(v, k) == IF k = 0 THEN <<>> ELSE <<v % 256>> \o ToLE(v \div 256, k - 1)

Zeros(k) == [i \in 1..k |-> 0]

IsNeg(b) == b[Len(b)] >= 128

\* `as` cast of a signed integer to a type of k bytes
SignExt(b, k) ==
    IF k <= Len(b) THEN SubSeq(b, 1, k)
    ELSE b \o [i \in 1..(k - Len(b)) |-> IF IsNeg(b) THEN 255 ELSE 0]

\* `as` cast of an unsigned integer to a type of k bytes
ZeroExt(b, k) ==
    IF k <= Len(b) THEN SubSeq(b, 1, k) ELSE b \o Zeros(k - Len(b))

\* value << 1 on a wrapping fixed-width integer
Shl1(b) ==
    [i \in 1..Len(b) |-> ((2 * b[i]) % 256) + (IF i = 1 THEN 0 ELSE b[i - 1] \div 128)]

\* value >> 8 on an unsigned fixed-width integer
Shr8(b) == Tail(b) \o <<0>>

\* value >> 31 on an i32 (arithmetic shift)
Sar31(b) == IF IsNeg(b) THEN <<255, 255, 255, 255>> ELSE <<0, 0, 0, 0>>

RECURSIVE ULtAt(_, _, _)
ULtAt(a, b, i) ==
    IF i = 0 THEN FALSE
    ELSE IF a[i] # b[i] THEN a[i] < b[i] ELSE ULtAt(a, b, i - 1)

\* a < b on unsigned integers of the same width
ULt(a, b) == ULtAt(a, b, Len(a))

\* a <= b on unsigned integers of the same width
ULe(a, b) == a = b \/ ULt(a, b)

\* a <= b on signed integers of the same width
SLe(a, b) == a = b \/ (IF IsNeg(a) # IsNeg(b) THEN IsNeg(a) ELSE ULt(a, b))

\* a small count as a usize
Usize(n) == ToLE(n, 8)

\* ------------------------------------------------------------------------
\* wire.rs

BLK1 == 0

BLK2 == 32

BLK4 == 64

QUAD == 96

INT1 == 128

INT2 == 160

INT4 == 192

REPEAT == 224

Wire == {BLK1, BLK2, BLK4, QUAD, INT1, INT2, INT4, REPEAT}

\* ------------------------------------------------------------------------
\* ser/pack.rs

RECURSIVE CountBytes(_)
CountBytes(v) == IF v = Zeros(Len(v)) THEN 0 ELSE 1 + CountBytes(Shr8(v))

\* the byte count of the value itself, without the zigzag step
required_space_plain(v) == CountBytes(OrBytes(v, <<1, 0, 0, 0>>))

required_space_for_i32(v) ==
    LET zz == XorBytes(Sar31(v), Shl1(v))
        nz == OrBytes(zz, <<1, 0, 0, 0>>)
    IN  CountBytes(nz)

get_mut_slice(out, size) == out \o Zeros(size)

tag_len(tag) == IF tag <= 29 THEN 0 ELSE IF tag <= U8_MAX THEN 1 ELSE 2

\* set_tag writing a two-byte tag high byte first
set_tag_be(wiretype, tag, sl) ==
    IF tag <= 29 THEN [sl EXCEPT ![1] = OrBits(wiretype, tag, 8)]
    ELSE IF tag <= U8_MAX
         THEN [sl EXCEPT ![1] = OrBits(wiretype, 30, 8), ![2] = tag]
         ELSE [sl EXCEPT ![1] = OrBits(wiretype, 31, 8),
                         ![2] = ToLE(tag, 2)[2], ![3] = ToLE(tag, 2)[1]]

\* the mutable slice after set_tag has written the header at its start
set_tag(wiretype, tag, sl) ==
    IF tag <= 29 THEN [sl EXCEPT ![1] = OrBits(wiretype, tag, 8)]
    ELSE IF tag <= U8_MAX
         THEN [sl EXCEPT ![1] = OrBits(wiretype, 30, 8), ![2] = tag]
         ELSE [sl EXCEPT ![1] = OrBits(wiretype, 31, 8),
                         ![2] = ToLE(tag, 2)[1], ![3] = ToLE(tag, 2)[2]]

push_tag(wiretype, tag, out) ==
    LET len == Len(out)
        grown == get_mut_slice(out, tag_len(tag) + 1)
    IN  SubSeq(grown, 1, len) \o set_tag(wiretype, tag, SubSeq(grown, len + 1, Len(grown)))

set_len32(tag, len, sl) ==
    LET hdr == set_tag(BLK4, tag, sl)
        hl == tag_len(tag) + 1
    IN  SubSeq(hdr, 1, hl) \o ZeroExt(len, 4)

push_byte(tag, v, out) == push_tag(INT1, tag, out) \o <<v>>

push_i32(tag, v, out) ==
    LET space == required_space_for_i32(v)
    IN  IF space = 1 THEN push_tag(INT1, tag, out) \o SignExt(v, 1)
        ELSE IF space = 2 THEN push_tag(INT2, tag, out) \o SignExt(v, 2)
        ELSE push_tag(INT4, tag, out) \o v

push_quad(tag, v, out) == push_tag(QUAD, tag, out) \o v

\* floats are their little-endian bit images: 4 bytes for f32, 8 for f64
push_f32(tag, v, out) == push_tag(INT4, tag, out) \o v

push_f64(tag, v, out) == push_tag(QUAD, tag, out) \o v

push_le32(v, out) == out \o v

\* push_len sending the length 255 to the two-byte class
push_len_strict(tag, len, out) ==
    IF ULt(len, Usize(U8_MAX)) THEN push_tag(BLK1, tag, out) \o ZeroExt(len, 1)
    ELSE IF ULe(len, Usize(U16_MAX)) THEN push_tag(BLK2, tag, out) \o ZeroExt(len, 2)
    ELSE push_le32(ZeroExt(len, 4), push_tag(BLK4, tag, out))

\* assert!(len <= std::u32::MAX as usize) of push_len fails
push_len_panics(len) == ULt(Usize(U16_MAX), len) /\ ~ULe(len, <<255, 255, 255, 255, 0, 0, 0, 0>>)

push_len(tag, len, out) ==
    IF ULe(len, Usize(U8_MAX)) THEN push_tag(BLK1, tag, out) \o ZeroExt(len, 1)
    ELSE IF ULe(len, Usize(U16_MAX)) THEN push_tag(BLK2, tag, out) \o ZeroExt(len, 2)
    ELSE push_le32(ZeroExt(len, 4), push_tag(BLK4, tag, out))

\* push_bytes declaring the length of the payload without its trailing zero
push_bytes_bare(tag, bytes, out) == push_len(tag, Usize(Len(bytes)), out) \o bytes \o <<0>>

push_bytes(tag, bytes, out) == push_len(tag, Usize(Len(bytes) + 1), out) \o bytes \o <<0>>

\* assert!(len < std::u32::MAX as usize) of push_repeated_len fails
push_repeated_len_panics(len) == ~ULt(len, <<255, 255, 255, 255, 0, 0, 0, 0>>)

push_repeated_len(tag, len, out) == push_le32(ZeroExt(len, 4), push_tag(REPEAT, tag, out))

\* ------------------------------------------------------------------------
\* Schemas: the types the derived Serialize/Deserialize impls are generated for

T(k) == [k |-> k]

Opt(t) == [k |-> "opt", t |-> t]

SeqOf(t) == [k |-> "seq", t |-> t]

Struct(fs) == [k |-> "struct", fs |-> fs]

Enum(arms) == [k |-> "enum", arms |-> arms]

\* ------------------------------------------------------------------------
\* ser/mod.rs
\* A serializer value s is the Serializer (output, current_tag) together with
\* the result of the call in progress (err) and the StructSerializers that have
\* run end() (structs) and the sequences whose SerializeSeq has run end()
\* (seqs: where the REPEAT header starts and where the last element ends), and
\* for every serialize_field that returned Ok the record it belongs to, the
\* position of the field in the declaration and the bytes it wrote (emitted).

Fail(s, e) == [s EXCEPT !.err = e]

\* the `?` operator: an Err is returned as it is, an Ok result is handed on
\* (the result is a value computed once, as the binding of a Rust `let`)
Try(res, F(_)) == CHOOSE out \in {IF x.err # "Ok" THEN x ELSE F(x) : x \in {res}} : TRUE

\* `let x = e;` then the code that uses x
Bind(x, F(_)) == CHOOSE out \in {F(y) : y \in {x}} : TRUE

serialize_i8(s, v) ==
    IF s.current_tag = None THEN Fail(s, "MissingTag")
    ELSE [s EXCEPT !.output = push_byte(s.current_tag[1], v[1], s.output)]

serialize_bool(s, v) == serialize_i8(s, IF v = <<0>> THEN <<0>> ELSE <<1>>)

serialize_i32(s, v) ==
    IF s.current_tag = None THEN Fail(s, "MissingTag")
    ELSE IF v = Zeros(4)
         THEN [s EXCEPT !.output = push_byte(s.current_tag[1], 0, s.output)]
         ELSE [s EXCEPT !.output = push_i32(s.current_tag[1], v, s.output)]

serialize_u8(s, v) == serialize_i32(s, ZeroExt(v, 4))

serialize_i16(s, v) == serialize_i32(s, SignExt(v, 4))

serialize_u16(s, v) == serialize_i32(s, ZeroExt(v, 4))

serialize_i64(s, v) ==
    IF s.current_tag = None THEN Fail(s, "MissingTag")
    ELSE IF SLe(v, SignExt(ToLE(I32_MAX, 4), 8))
         THEN [s EXCEPT !.output = push_i32(s.current_tag[1], SignExt(v, 4), s.output)]
         ELSE [s EXCEPT !.output = push_quad(s.current_tag[1], v, s.output)]

serialize_u32(s, v) == serialize_i64(s, ZeroExt(v, 8))

serialize_u64(s, v) == serialize_i64(s, v)

serialize_f32(s, v) ==
    IF s.current_tag = None THEN Fail(s, "MissingTag")
    ELSE [s EXCEPT !.output = push_f32(s.current_tag[1], v, s.output)]

serialize_f64(s, v) ==
    IF s.current_tag = None THEN Fail(s, "MissingTag")
    ELSE [s EXCEPT !.output = push_f64(s.current_tag[1], v, s.output)]

serialize_char(s, v) == serialize_u32(s, v)

serialize_str(s, v) ==
    IF s.current_tag = None THEN Fail(s, "MissingTag")
    ELSE [s EXCEPT !.output = push_bytes(s.current_tag[1], v, s.output)]

serialize_none(s) == s

serialize_unit(s) == s

serialize_seq(s, len) ==
    IF s.current_tag = None THEN Fail(s, "MissingTag")
    ELSE IF push_repeated_len_panics(len) THEN Fail(s, "Panic")
    ELSE [s EXCEPT !.output = push_repeated_len(s.current_tag[1], len, s.output)]

\* the StructSerializer returned by serialize_struct, and the serializer after it
serialize_struct(s) ==
    IF s.current_tag # None
    THEN [ser |-> [s EXCEPT !.output =
                        get_mut_slice(s.output, tag_len(s.current_tag[1]) + 1 + 4)],
          tag |-> 1, struct_pos |-> Len(s.output), struct_tag |-> s.current_tag[1],
          nested |-> TRUE]
    ELSE [ser |-> s, tag |-> 1, struct_pos |-> 0, struct_tag |-> 0, nested |-> FALSE]

\* StructSerializer::end: back-patches the reserved slot
StructSerializer_end(st) ==
    LET s == st.ser
        slice_len == tag_len(st.struct_tag) + 1 + 4
        struct_len == Len(s.output) - st.struct_pos - slice_len
        done == [struct_pos |-> st.struct_pos, struct_tag |-> st.struct_tag,
                 nested |-> st.nested, end_pos |-> Len(s.output)]
        logged == [s EXCEPT !.structs = Append(@, done)]
    IN  IF st.struct_pos # 0
        THEN [logged EXCEPT !.output =
                 SubSeq(s.output, 1, st.struct_pos)
                 \o set_len32(st.struct_tag, Usize(struct_len),
                              SubSeq(s.output, st.struct_pos + 1, st.struct_pos + slice_len))
                 \o SubSeq(s.output, st.struct_pos + slice_len + 1, Len(s.output))]
        ELSE logged

RECURSIVE Serialize(_, _, _)
RECURSIVE SerializeFields(_, _, _, _)
RECURSIVE SerializeElements(_, _, _, _)

\* StructSerializer::serialize_field for the fields i.. of the record, then end
SerializeFields(fs, vs, i, st) ==
    IF i > Len(fs) THEN StructSerializer_end(st)
    ELSE Try(Serialize(fs[i], vs[i], [st.ser EXCEPT !.current_tag = Some(st.tag)]),
             LAMBDA after :
                 SerializeFields(fs, vs, i + 1,
                     [st EXCEPT !.tag = st.tag + 1,
                                !.ser = [after EXCEPT !.emitted =
                                    Append(@, [struct_pos |-> st.struct_pos, nested |-> st.nested,
                                               index |-> i, start |-> Len(st.ser.output),
                                               end_pos |-> Len(after.output)])]]))

\* SerializeSeq::serialize_element for the elements i.. of the sequence, then end
SerializeElements(t, vs, i, s) ==
    IF i > Len(vs) THEN s
    ELSE Try(Serialize(t, vs[i], [s EXCEPT !.current_tag = Some(0)]),
             LAMBDA after : SerializeElements(t, vs, i + 1, after))

\* serialize_newtype_variant leaving the variant index as the current tag
serialize_newtype_variant_index(s, arms, v) ==
    IF s.current_tag = None THEN Fail(s, "MissingTag")
    ELSE LET tag == s.current_tag[1]
             pos == Len(s.output)
             slice_len == tag_len(tag) + 1 + 4
             reserved == [s EXCEPT !.output = get_mut_slice(s.output, slice_len),
                                   !.current_tag = Some(v[1])]
         IN  Try(Serialize(arms[v[1] + 1], v[2], reserved), LAMBDA packed :
                 [packed EXCEPT
                     !.output = SubSeq(packed.output, 1, pos)
                                \o set_len32(tag, Usize(Len(packed.output) - pos - slice_len),
                                             SubSeq(packed.output, pos + 1, pos + slice_len))
                                \o SubSeq(packed.output, pos + slice_len + 1, Len(packed.output))])

\* serialize_newtype_variant: v = <<variant_index, payload>>
serialize_newtype_variant(s, arms, v) ==
    IF s.current_tag = None THEN Fail(s, "MissingTag")
    ELSE LET tag == s.current_tag[1]
             pos == Len(s.output)
             slice_len == tag_len(tag) + 1 + 4
             reserved == [s EXCEPT !.output = get_mut_slice(s.output, slice_len),
                                   !.current_tag = Some(v[1])]
         IN  Try(Serialize(arms[v[1] + 1], v[2], reserved), LAMBDA packed :
                 [packed EXCEPT
                     !.current_tag = Some(tag),
                     !.output = SubSeq(packed.output, 1, pos)
                                \o set_len32(tag, Usize(Len(packed.output) - pos - slice_len),
                                             SubSeq(packed.output, pos + 1, pos + slice_len))
                                \o SubSeq(packed.output, pos + slice_len + 1, Len(packed.output))])

\* <T as Serialize>::serialize of the derived impls
Serialize(t, v, s) ==
    CASE t.k = "bool" -> serialize_bool(s, v)
      [] t.k = "i8" -> serialize_i8(s, v)
      [] t.k = "u8" -> serialize_u8(s, v)
      [] t.k = "i16" -> serialize_i16(s, v)
      [] t.k = "u16" -> serialize_u16(s, v)
      [] t.k = "i32" -> serialize_i32(s, v)
      [] t.k = "u32" -> serialize_u32(s, v)
      [] t.k = "i64" -> serialize_i64(s, v)
      [] t.k = "u64" -> serialize_u64(s, v)
      [] t.k = "f32" -> serialize_f32(s, v)
      [] t.k = "f64" -> serialize_f64(s, v)
      [] t.k = "char" -> serialize_char(s, v)
      [] t.k = "str" -> serialize_str(s, v)
      [] t.k = "unit" -> serialize_unit(s)
      [] t.k = "opt" -> IF v = <<>> THEN serialize_none(s) ELSE Serialize(t.t, v[1], s)
      [] t.k = "seq" ->
            Try(serialize_seq(s, Usize(Len(v))),
                LAMBDA started :
                    Try(SerializeElements(t.t, v, 1, started), LAMBDA done :
                        [done EXCEPT !.seqs = Append(@, [seq_pos |-> Len(s.output),
                                                         seq_tag |-> s.current_tag[1],
                                                         end_pos |-> Len(done.output)])]))
      [] t.k = "struct" -> SerializeFields(t.fs, v, 1, serialize_struct(s))
      [] t.k = "enum" -> serialize_newtype_variant(s, t.arms, v)

to_bytes(t, v) ==
    Serialize(t, v, [output |-> <<>>, current_tag |-> None, structs |-> <<>>, seqs |-> <<>>, emitted |-> <<>>,
     err |-> "Ok"])


\* ------------------------------------------------------------------------
\* de/read.rs
\* A reader value r is the BinReader (slice, total_read_len, current_hdr); its
\* field payload_end remembers total_read_len at the end of the last payload
\* that was read or skipped (header bytes do not move it).  Every method
\* returns the reader it leaves behind, its Result and the Ok value.

Ok(r, v) == [r |-> r, err |-> "Ok", v |-> v]

Err(r, e) == [r |-> r, err |-> e, v |-> <<>>]

Payload(res) ==
    IF res.err = "Ok" THEN [res EXCEPT !.r.payload_end = res.r.total_read_len] ELSE res

\* the value of a small unsigned integer
RECURSIVE FromLE(_)
FromLE(b) == IF b = <<>> THEN 0 ELSE b[1] + 256 * FromLE(Tail(b))

\* n - 1 on a non-zero usize
RECURSIVE Dec(_)
Dec(b) == IF b[1] > 0 THEN <<b[1] - 1>> \o Tail(b) ELSE <<255>> \o Dec(Tail(b))

\* a + n on a wrapping usize
RECURSIVE AddTo(_, _)
AddTo(b, n) ==
    IF b = <<>> THEN <<>>
    ELSE <<(b[1] + (n % 256)) % 256>> \o AddTo(Tail(b), (n \div 256) + ((b[1] + (n % 256)) \div 256))

BinReader_new(buf) ==
    [slice |-> buf, total_read_len |-> 0, current_hdr |-> None, payload_end |-> 0]

is_empty(r) == r.slice = <<>>

get_total_read_len(r) == r.total_read_len

\* get_slice advancing the slice without counting the bytes
get_slice_uncounted(r, len) ==
    IF ULt(Usize(Len(r.slice)), len) THEN Err(r, "InputTooShort")
    ELSE LET n == FromLE(len)
         IN  Ok([r EXCEPT !.slice = SubSeq(r.slice, n + 1, Len(r.slice))],
                SubSeq(r.slice, 1, n))

get_slice(r, len) ==
    IF ULt(Usize(Len(r.slice)), len) THEN Err(r, "InputTooShort")
    ELSE LET n == FromLE(len)
         IN  Ok([r EXCEPT !.slice = SubSeq(r.slice, n + 1, Len(r.slice)),
                          !.total_read_len = @ + n],
                SubSeq(r.slice, 1, n))

\* read_integer_method!: the little-endian integer of the given size
read_integer(r, size) == get_slice(r, Usize(size))

read_u8(r) == read_integer(r, 1)

read_i8(r) == read_integer(r, 1)

read_u16(r) == read_integer(r, 2)

read_i16(r) == read_integer(r, 2)

read_i32(r) == read_integer(r, 4)

read_i64(r) == read_integer(r, 8)

\* impl From<u8> for Wire
Wire_from(v) ==
    CASE v \div 32 = 0 -> BLK1
      [] v \div 32 = 1 -> BLK2
      [] v \div 32 = 2 -> BLK4
      [] v \div 32 = 3 -> QUAD
      [] v \div 32 = 4 -> INT1
      [] v \div 32 = 5 -> INT2
      [] v \div 32 = 6 -> INT4
      [] v \div 32 = 7 -> REPEAT

read_hdr(r) ==
    Try(get_slice(r, Usize(1)), LAMBDA first :
        LET wire == Wire_from(first.v[1])
            byte == first.v[1] % 32
        IN  IF byte < 30 THEN Ok(first.r, [wire |-> wire, tag |-> byte])
            ELSE IF byte = 30
            THEN Try(read_u8(first.r),
                     LAMBDA t : Ok(t.r, [wire |-> wire, tag |-> FromLE(t.v)]))
            ELSE Try(read_u16(first.r),
                     LAMBDA t : Ok(t.r, [wire |-> wire, tag |-> FromLE(t.v)])))

\* get_next_tag_value handing the tag out without keeping the header
get_next_tag_value_dropping(r) ==
    IF r.current_hdr # None THEN Ok(r, r.current_hdr[1].tag)
    ELSE Try(read_hdr(r), LAMBDA h : Ok(h.r, h.v.tag))

get_next_tag_value(r) ==
    IF r.current_hdr # None THEN Ok(r, r.current_hdr[1].tag)
    ELSE Try(read_hdr(r),
             LAMBDA h : Ok([h.r EXCEPT !.current_hdr = Some(h.v)], h.v.tag))

read_len_raw(r, wire) ==
    LET widen(res) == Ok(res.r, ZeroExt(res.v, 8))
    IN  CASE wire = BLK1 -> Try(read_i8(r), widen)
          [] wire = BLK2 -> Try(read_i16(r), widen)
          [] wire = BLK4 -> Try(read_i32(r), widen)
          [] wire = QUAD -> Try(read_i64(r), widen)
          [] OTHER -> Err(r, "InvalidEncoding")

read_len(r, wire) == Payload(read_len_raw(r, wire))

RECURSIVE skip_data_raw(_, _)
RECURSIVE skip_items(_, _)

\* the body of `for _ in 0..len` of skip_data
skip_items(r, len) ==
    IF len = Usize(0) THEN Ok(r, <<>>)
    ELSE Try(read_hdr(r), LAMBDA new_hdr :
             IF new_hdr.v.tag # 0 THEN Err(new_hdr.r, "InvalidEncoding")
             ELSE Try(skip_data_raw(new_hdr.r, new_hdr.v.wire),
                      LAMBDA sk : skip_items(sk.r, Dec(len))))

skip_data_raw(r, wire) ==
    LET drop(res) == Ok(res.r, <<>>)
    IN  CASE wire = QUAD -> Try(get_slice(r, Usize(8)), drop)
          [] wire = INT1 -> Try(get_slice(r, Usize(1)), drop)
          [] wire = INT2 -> Try(get_slice(r, Usize(2)), drop)
          [] wire = INT4 -> Try(get_slice(r, Usize(4)), drop)
          [] wire \in {BLK1, BLK2, BLK4} ->
                Try(read_len(r, wire), LAMBDA len : Try(get_slice(len.r, len.v), drop))
          [] wire = REPEAT ->
                Try(read_len(r, wire), LAMBDA len : skip_items(len.r, len.v))

skip_data(r, wire) == Payload(skip_data_raw(r, wire))

RECURSIVE skip_while_lower(_, _, _)
\* the while loop of skip_upto_tag
skip_while_lower(r, hdr, target_tag) ==
    IF hdr.tag < target_tag
    THEN Try(skip_data(r, hdr.wire), LAMBDA sk :
             Try(read_hdr(sk.r), LAMBDA next : skip_while_lower(next.r, next.v, target_tag)))
    ELSE Ok(r, hdr)

\* skip_upto_tag reading a new header whatever the lookahead holds
skip_upto_tag_fresh(r, target_tag) ==
    Try(read_hdr([r EXCEPT !.current_hdr = None]),
        LAMBDA first : skip_while_lower(first.r, first.v, target_tag))

skip_upto_tag(r, target_tag) ==
    Try(IF r.current_hdr # None
        THEN Ok([r EXCEPT !.current_hdr = None], r.current_hdr[1])
        ELSE read_hdr(r),
        LAMBDA first : skip_while_lower(first.r, first.v, target_tag))

\* get_optional_tag answering absent on every error of the search
get_optional_tag_lenient(r, target_tag) ==
    Bind(skip_upto_tag(r, target_tag), LAMBDA hdr :
        IF hdr.err # "Ok" THEN Ok(hdr.r, None)
        ELSE IF hdr.v.tag > target_tag
             THEN Ok([hdr.r EXCEPT !.current_hdr = Some(hdr.v)], None)
             ELSE Ok([hdr.r EXCEPT !.current_hdr = Some(hdr.v)], Some(hdr.v.wire)))

get_optional_tag(r, target_tag) ==
    Bind(skip_upto_tag(r, target_tag), LAMBDA hdr :
        IF hdr.err = "InputTooShort" THEN Ok(hdr.r, None)
        ELSE IF hdr.err # "Ok" THEN hdr
        ELSE IF hdr.v.tag > target_tag
             THEN Ok([hdr.r EXCEPT !.current_hdr = Some(hdr.v)], None)
             ELSE Ok([hdr.r EXCEPT !.current_hdr = Some(hdr.v)], Some(hdr.v.wire)))

get_tag(r, target_tag) ==
    Try(skip_upto_tag(r, target_tag), LAMBDA hdr :
        IF hdr.v.tag > target_tag THEN Err(hdr.r, "InvalidEncoding")
        ELSE Ok(hdr.r, hdr.v.wire))

\* the integer handed to the visitor, at the width of its wire class
visit_integer(r, wire) ==
    Payload(CASE wire = INT1 -> read_i8(r)
              [] wire = INT2 -> read_i16(r)
              [] wire = INT4 -> read_i32(r)
              [] wire = QUAD -> read_i64(r)
              [] OTHER -> Err(r, "InvalidEncoding"))

read_u64(r, wire) ==
    LET widen(res) == Ok(res.r, SignExt(res.v, 8))
    IN  Payload(CASE wire = INT1 -> Try(read_i8(r), widen)
                  [] wire = INT2 -> Try(read_i16(r), widen)
                  [] wire = INT4 -> Try(read_i32(r), widen)
                  [] wire = QUAD -> Try(read_i64(r), widen)
                  [] OTHER -> Err(r, "InvalidEncoding"))

read_f32(r, wire) ==
    IF wire = INT4 THEN Payload(get_slice(r, Usize(4))) ELSE Err(r, "InvalidEncoding")

read_f64(r, wire) ==
    IF wire = QUAD THEN Payload(get_slice(r, Usize(8))) ELSE Err(r, "InvalidEncoding")

read_repeated_len(r, wire) ==
    IF wire = REPEAT
    THEN Payload(Try(read_i32(r), LAMBDA n : Ok(n.r, SignExt(n.v, 8))))
    ELSE Err(r, "InvalidEncoding")

\* read_bytes accepting any byte as the terminator
read_bytes_unchecked(r, wire) ==
    Try(read_len(r, wire), LAMBDA len :
        IF len.v = Usize(0) THEN Err(len.r, "InvalidEncoding")
        ELSE Try(get_slice(len.r, Dec(len.v)), LAMBDA sl :
                 Try(get_slice(sl.r, Usize(1)), LAMBDA z : Payload(Ok(z.r, sl.v)))))

read_bytes(r, wire) ==
    Try(read_len(r, wire), LAMBDA len :
        IF len.v = Usize(0) THEN Err(len.r, "InvalidEncoding")
        ELSE Try(get_slice(len.r, Dec(len.v)), LAMBDA sl :
                 Try(get_slice(sl.r, Usize(1)), LAMBDA z :
                     IF z.v[1] # 0 THEN Err(z.r, "InvalidEncoding")
                     ELSE Payload(Ok(z.r, sl.v)))))

\* ------------------------------------------------------------------------
\* de/mod.rs
\* A deserializer value d is the Deserializer (reader, current_tag); its field
\* fields lists, for every field a bounded StructDeserializer was asked for
\* when its frame was already used up, whether the field is optional and
\* whether it was decoded as present.

DOk(d, v) == [d |-> d, err |-> "Ok", v |-> v]

DErr(d, e) == [d |-> d, err |-> e, v |-> <<>>]

\* a reader result as the result of the deserializer that owns the reader
Lift(d, res) == [d |-> [d EXCEPT !.reader = res.r], err |-> res.err, v |-> res.v]

Deserializer_from_bytes(buf) ==
    [reader |-> BinReader_new(buf), current_tag |-> None, fields |-> <<>>, frames |-> <<>>]

\* get_wire seeking the tag 0 when no current tag is set
get_wire_untagged(d) ==
    Lift(d, get_tag(d.reader, IF d.current_tag = None THEN 0 ELSE d.current_tag[1]))

get_wire(d) ==
    IF d.current_tag = None THEN DErr(d, "MissingTag")
    ELSE Lift(d, get_tag(d.reader, d.current_tag[1]))

get_optional_wire(d) ==
    IF d.current_tag = None THEN DErr(d, "MissingTag")
    ELSE Lift(d, get_optional_tag(d.reader, d.current_tag[1]))

IntWidth(k) ==
    CASE k \in {"i8", "u8"} -> 1
      [] k \in {"i16", "u16"} -> 2
      [] k \in {"i32", "u32"} -> 4
      [] k \in {"i64", "u64"} -> 8

IntTypes == {"i8", "u8", "i16", "u16", "i32", "u32", "i64", "u64"}

\* the range check of serde's integer visitors on the signed integer v
VisitorAccepts(k, v) ==
    LET q == SignExt(v, 8)
    IN  IF k \in {"i8", "i16", "i32", "i64"}
        THEN q = SignExt(SubSeq(q, 1, IntWidth(k)), 8)
        ELSE ~IsNeg(q) /\ q = ZeroExt(SubSeq(q, 1, IntWidth(k)), 8)

\* deserialize_int_method!
deserialize_int(k, d) ==
    Try(get_wire(d), LAMBDA wire :
        Try(Lift(wire.d, visit_integer(wire.d.reader, wire.v)), LAMBDA n :
            IF VisitorAccepts(k, n.v)
            THEN DOk(n.d, SubSeq(SignExt(n.v, 8), 1, IntWidth(k)))
            ELSE DErr(n.d, "Custom")))

deserialize_bool(d) ==
    Try(get_wire(d), LAMBDA wire :
        Try(Lift(wire.d, read_u64(wire.d.reader, wire.v)), LAMBDA n :
            DOk(n.d, IF n.v = Zeros(8) THEN <<0>> ELSE <<1>>)))

deserialize_f32(d) ==
    Try(get_wire(d), LAMBDA wire : Lift(wire.d, read_f32(wire.d.reader, wire.v)))

deserialize_f64(d) ==
    Try(get_wire(d), LAMBDA wire : Lift(wire.d, read_f64(wire.d.reader, wire.v)))

\* std::char::from_u32 accepts the code point
IsScalar(v) ==
    /\ v[4] = 0
    /\ v[3] <= 16
    /\ ~(v[3] = 0 /\ v[2] >= 216 /\ v[2] <= 223)

deserialize_char(d) ==
    Try(get_wire(d), LAMBDA wire :
        Try(Lift(wire.d, read_u64(wire.d.reader, wire.v)), LAMBDA n :
            IF ULt(n.v, <<255, 255, 255, 255, 0, 0, 0, 0>>) /\ IsScalar(ZeroExt(n.v, 4))
            THEN DOk(n.d, ZeroExt(n.v, 4))
            ELSE DErr(n.d, "InvalidEncoding")))

deserialize_bytes(d) ==
    Try(get_wire(d), LAMBDA wire : Lift(wire.d, read_bytes(wire.d.reader, wire.v)))

\* String's visitor checks the borrowed bytes are UTF-8 (the strings of the
\* model hold ASCII bytes and 0xFF only)
deserialize_string(d) ==
    Try(deserialize_bytes(d), LAMBDA b :
        IF \A i \in 1..Len(b.v) : b.v[i] < 128 THEN b ELSE DErr(b.d, "Custom"))

deserialize_unit(d) == DOk(d, <<>>)

StructDeserializer_new(d, nb_fields, struct_len) ==
    [nb_fields |-> nb_fields,
     struct_len |-> IF struct_len = None THEN None
                    ELSE Some(AddTo(struct_len[1], get_total_read_len(d.reader))),
     current_tag |-> 1]

RECURSIVE Deserialize(_, _)
RECURSIVE DeserializeElements(_, _, _, _)
RECURSIVE DeserializeFields(_, _, _, _, _)

\* SeqDeserializer::next_element_seed driven by Vec's visitor
DeserializeElements(t, d, remaining_elements, acc) ==
    IF remaining_elements = Usize(0) THEN DOk(d, acc)
    ELSE Try(Deserialize(t, [d EXCEPT !.current_tag = Some(0)]), LAMBDA e :
             DeserializeElements(t, e.d, Dec(remaining_elements), Append(acc, e.v)))

\* StructDeserializer::next_element_seed driven by the derived visitor, which
\* asks for one element per declared field
DeserializeFields(fs, d, sd, i, acc) ==
    IF i > Len(fs) THEN DOk(d, acc)
    ELSE LET stop == IF sd.struct_len # None
                     THEN ~ULt(Usize(get_total_read_len(d.reader)), sd.struct_len[1])
                     ELSE is_empty(d.reader)
         IN  IF stop /\ sd.nb_fields = 0 THEN DErr(d, "Custom")
             ELSE Try(Deserialize(fs[i], [d EXCEPT !.current_tag = Some(sd.current_tag)]),
                      LAMBDA f :
                 LET seen == [opt |-> fs[i].k = "opt", present |-> f.v # <<>>,
                              tag |-> sd.current_tag]
                     logged == IF stop /\ sd.struct_len # None
                               THEN [f.d EXCEPT !.fields = Append(@, seen)]
                               ELSE f.d
                 IN  DeserializeFields(fs, logged,
                                       [sd EXCEPT !.current_tag = @ + 1, !.nb_fields = @ - 1],
                                       i + 1, Append(acc, f.v)))

\* the result of a decode that read a frame length, with the frame logged:
\* the counter right after the length was read, the length, the counter now
Framed(done, len) ==
    [done EXCEPT !.d.frames = Append(@, [start |-> get_total_read_len(len.d.reader),
                                         len |-> len.v,
                                         end_pos |-> get_total_read_len(done.d.reader)])]

deserialize_option(t, d) ==
    Try(get_optional_wire(d), LAMBDA wire :
        IF wire.v = None THEN DOk(wire.d, None)
        ELSE Try(Deserialize(t, wire.d), LAMBDA inner : DOk(inner.d, Some(inner.v))))

deserialize_seq(t, d) ==
    Try(get_wire(d), LAMBDA wire :
        Try(Lift(wire.d, read_repeated_len(wire.d.reader, wire.v)), LAMBDA len :
            DeserializeElements(t, len.d, len.v, <<>>)))

deserialize_struct(fs, d) ==
    IF d.current_tag # None
    THEN Try(get_wire(d), LAMBDA wire :
             Try(Lift(wire.d, read_len(wire.d.reader, wire.v)), LAMBDA len :
                 Try(DeserializeFields(fs, len.d,
                                       StructDeserializer_new(len.d, Len(fs), Some(len.v)),
                                       1, <<>>),
                     LAMBDA done : Framed(done, len))))
    ELSE DeserializeFields(fs, d, StructDeserializer_new(d, Len(fs), None), 1, <<>>)

\* UnionDeserializer: variant_seed, then newtype_variant_seed
union_variant(arms, d) ==
    Try(Lift(d, get_next_tag_value(d.reader)), LAMBDA tag :
        IF tag.v >= Len(arms) THEN DErr([tag.d EXCEPT !.current_tag = Some(tag.v)], "Custom")
        ELSE Try(Deserialize(arms[tag.v + 1], [tag.d EXCEPT !.current_tag = Some(tag.v)]),
                 LAMBDA inner : DOk(inner.d, <<tag.v, inner.v>>)))

deserialize_enum(arms, d) ==
    IF d.current_tag # None
    THEN Try(get_wire(d), LAMBDA wire :
             Try(Lift(wire.d, read_len(wire.d.reader, wire.v)), LAMBDA len :
                 Try(union_variant(arms, len.d), LAMBDA done : Framed(done, len))))
    ELSE union_variant(arms, d)

\* <T as Deserialize>::deserialize of the derived impls
Deserialize(t, d) ==
    CASE t.k \in IntTypes -> deserialize_int(t.k, d)
      [] t.k = "bool" -> deserialize_bool(d)
      [] t.k = "f32" -> deserialize_f32(d)
      [] t.k = "f64" -> deserialize_f64(d)
      [] t.k = "char" -> deserialize_char(d)
      [] t.k = "str" -> deserialize_string(d)
      [] t.k = "unit" -> deserialize_unit(d)
      [] t.k = "opt" -> deserialize_option(t.t, d)
      [] t.k = "seq" -> deserialize_seq(t.t, d)
      [] t.k = "struct" -> deserialize_struct(t.fs, d)
      [] t.k = "enum" -> deserialize_enum(t.arms, d)

\* from_bytes: deserialized is the result of T::deserialize
from_bytes(t, buf) ==
    Try(Deserialize(t, Deserializer_from_bytes(buf)), LAMBDA deserialized :
        IF is_empty(deserialized.d.reader) THEN deserialized
        ELSE DErr(deserialized.d, "TrailingCharacters"))

\* ------------------------------------------------------------------------
\* Inputs

PackTags == {0, 1, 29, 30, 255, 256, 65535}

I32Values ==
    {I32_MIN, I32_MIN + 1, -8388609, -8388608, -32769, -32768, -32767, -129, -128,
     -127, -1, 0, 1, 127, 128, 255, 256, 32767, 32768, 65535, 65536, 8388607,
     8388608, I32_MAX - 1, I32_MAX}

\* the output buffer may already hold MaxPrefix bytes when a packer is called
MaxPrefix == 1

FreshSer == [output |-> <<>>, current_tag |-> None, structs |-> <<>>, seqs |-> <<>>, emitted |-> <<>>,
     err |-> "Ok"]

\* longest string and longest sequence of the values handed to to_bytes
MaxStrLen == 2

MaxSeqLen == 2

I8Values == {ToLE(n, 1) : n \in {-128, -1, 0, 1, 42, 127}}

U8Values == {ToLE(n, 1) : n \in {0, 1, 127, 128, 230, 255}}

I16Values == {ToLE(n, 2) : n \in {-32768, -129, -128, 0, 127, 128, 540, 32767}}

U16Values == {ToLE(n, 2) : n \in {0, 255, 256, 2000, 32767, 32768, 65535}}

U32Values ==
    {ToLE(n, 4) : n \in {0, 1, 5, 255, 65536, I32_MAX}}
    \cup {<<0, 0, 0, 128>>, <<255, 255, 255, 255>>}

I64Values ==
    {SignExt(ToLE(n, 4), 8) : n \in {I32_MIN, -32769, -129, -1, 0, 1, 10000, 65536, I32_MAX}}
    \cup {<<0, 0, 0, 128, 0, 0, 0, 0>>,                   \* 2^31
          <<0, 0, 0, 0, 1, 0, 0, 0>>,                     \* 2^32
          <<255, 255, 255, 255, 255, 255, 255, 127>>,     \* i64::MAX
          <<255, 255, 255, 127, 255, 255, 255, 255>>,     \* -2^31 - 1
          <<0, 0, 0, 0, 255, 255, 255, 255>>,             \* -2^32
          <<0, 0, 0, 0, 0, 0, 0, 128>>}                   \* i64::MIN

U64Values ==
    {ZeroExt(ToLE(n, 4), 8) : n \in {0, 1, 20000, I32_MAX}}
    \cup {<<0, 0, 0, 128, 0, 0, 0, 0>>,                   \* 2^31
          <<255, 255, 255, 255, 255, 255, 255, 127>>,     \* 2^63 - 1
          <<0, 0, 0, 0, 0, 0, 0, 128>>,                   \* 2^63
          <<5, 0, 0, 0, 0, 0, 0, 128>>,                   \* 2^63 + 5
          <<255, 255, 255, 255, 255, 255, 255, 255>>}     \* u64::MAX

CharValues ==
    {<<0, 0, 0, 0>>, <<10, 0, 0, 0>>, <<97, 0, 0, 0>>, <<233, 0, 0, 0>>,
     <<172, 32, 0, 0>>, <<255, 215, 0, 0>>, <<255, 255, 16, 0>>}

BoolValues == {<<0>>, <<1>>}

StrValues == UNION {[1..n -> {97, 98}] : n \in 0..MaxStrLen}

SeqValues(elems) == UNION {[1..n -> elems] : n \in 0..MaxSeqLen}

OptValues(elems) == {None} \cup {Some(x) : x \in elems}

\* a record with one field of a primitive type
OneField(k, vals) == {[ty |-> Struct(<<T(k)>>), v |-> <<x>>] : x \in vals}

PrimitiveCases ==
    OneField("i8", I8Values) \cup OneField("u8", U8Values)
    \cup OneField("i16", I16Values) \cup OneField("u16", U16Values)
    \cup OneField("i32", {ToLE(n, 4) : n \in I32Values}) \cup OneField("u32", U32Values)
    \cup OneField("i64", I64Values) \cup OneField("u64", U64Values)
    \cup OneField("bool", BoolValues) \cup OneField("char", CharValues)
    \cup OneField("str", StrValues)
    \cup OneField("f32", {<<0, 0, 128, 63>>, <<0, 0, 0, 128>>})
    \cup OneField("f64", {<<0, 0, 0, 0, 0, 0, 248, 63>>})

\* { x: i8, inner: { a: Option<i8>, b: Option<i8>, c: Option<i8> }, y: i8 }
OptionalsTy ==
    Struct(<<T("i8"),
             Struct(<<Opt(T("i8")), Opt(T("i8")), Opt(T("i8"))>>),
             T("i8")>>)

OptionalsCases ==
    {[ty |-> OptionalsTy, v |-> <<ToLE(1, 1), <<a, b, c>>, ToLE(7, 1)>>] :
        a \in OptValues({<<3>>}), b \in OptValues({<<4>>}), c \in OptValues({<<5>>})}

\* { inner: { a: i8 }, y: i8 }: the nested record is the first thing written
NestedFirstTy == Struct(<<Struct(<<T("i8")>>), T("i8")>>)

NestedFirstCases == {[ty |-> NestedFirstTy, v |-> <<<<a>>, ToLE(7, 1)>>] : a \in I8Values}

\* { x: u8, inner: { a: i8, s: String } }
NestedLastTy == Struct(<<T("u8"), Struct(<<T("i8"), T("str")>>)>>)

NestedLastCases ==
    {[ty |-> NestedLastTy, v |-> <<<<1>>, <<a, str>>>>] : a \in {<<0>>, <<255>>}, str \in StrValues}

\* { n: i8, last: Option<i8> }
TrailingOptTy == Struct(<<T("i8"), Opt(T("i8"))>>)

TrailingOptCases ==
    {[ty |-> TrailingOptTy, v |-> <<<<1>>, o>>] : o \in OptValues({<<0>>, <<255>>})}

\* { seq: Vec<String>, recs: Vec<{ a: i8 }> }
SeqTy == Struct(<<SeqOf(T("str")), SeqOf(Struct(<<T("i8")>>))>>)

SeqCases ==
    {[ty |-> SeqTy, v |-> <<strs, recs>>] :
        strs \in SeqValues({<<>>, <<97>>}), recs \in SeqValues({<<<<0>>>>, <<<<255>>>>})}

\* enum VariantA { Ua(i32), Ub(i8), Us(String) } in { l: VariantA, n: bool }
UnionTy == Struct(<<Enum(<<T("i32"), T("i8"), T("str")>>), T("bool")>>)

\* the union as the first field, and as the last field { n: bool, l: VariantA }
UnionCases ==
    LET us == {<<0, ToLE(n, 4)>> : n \in {0, 1, -129, 65536}}
              \cup {<<1, <<42>>>>}
              \cup {<<2, str>> : str \in StrValues}
    IN  {[ty |-> UnionTy, v |-> <<u, <<1>>>>] : u \in us}
        \cup {[ty |-> Struct(<<UnionTy.fs[2], UnionTy.fs[1]>>), v |-> <<<<1>>, u>>] : u \in us}

\* Test of tests.rs: { int: u32, seq: Vec<String>, _dummy3: (), inner: Inner }
\* with Inner { v1: Option<bool>, _dummy2: (), _dummy3: (), v2: Option<bool>, c: char }
BasicTy ==
    Struct(<<T("u32"), SeqOf(T("str")), T("unit"),
             Struct(<<Opt(T("bool")), T("unit"), T("unit"), Opt(T("bool")), T("char")>>)>>)

BasicCases ==
    {[ty |-> BasicTy,
      v |-> <<<<1, 0, 0, 0>>, <<<<97>>, <<98>>>>, <<>>, <<v1, <<>>, <<>>, v2, <<10, 0, 0, 0>>>>>>] :
        v1 \in OptValues(BoolValues), v2 \in OptValues(BoolValues)}

\* { opts: Vec<Option<i8>>, units: Vec<()> }
SeqOptTy == Struct(<<SeqOf(Opt(T("i8"))), SeqOf(T("unit"))>>)

SeqOptCases ==
    {[ty |-> SeqOptTy, v |-> <<opts, units>>] :
        opts \in SeqValues(OptValues({<<1>>})), units \in SeqValues({<<>>})}

\* values that are not records: a primitive of each kind, or sequences
TopLevelCases(sequences) ==
    IF sequences
    THEN {[ty |-> SeqOf(T("i8")), v |-> <<>>], [ty |-> SeqOf(T("i8")), v |-> <<<<1>>>>]}
    ELSE
    {[ty |-> T("i8"), v |-> <<1>>], [ty |-> T("u8"), v |-> <<1>>],
     [ty |-> T("i16"), v |-> <<1, 0>>], [ty |-> T("u16"), v |-> <<1, 0>>],
     [ty |-> T("i32"), v |-> <<0, 0, 0, 0>>], [ty |-> T("u32"), v |-> <<1, 0, 0, 0>>],
     [ty |-> T("i64"), v |-> <<1, 0, 0, 0, 0, 0, 0, 0>>],
     [ty |-> T("u64"), v |-> <<1, 0, 0, 0, 0, 0, 0, 128>>],
     [ty |-> T("bool"), v |-> <<1>>], [ty |-> T("char"), v |-> <<97, 0, 0, 0>>],
     [ty |-> T("f32"), v |-> <<0, 0, 128, 63>>],
     [ty |-> T("f64"), v |-> <<0, 0, 0, 0, 0, 0, 248, 63>>],
     [ty |-> T("str"), v |-> <<97>>], [ty |-> T("str"), v |-> <<>>]}

\* the values handed to to_bytes
IsCase(c) ==
    \/ c \in PrimitiveCases
    \/ c \in OptionalsCases
    \/ c \in NestedFirstCases
    \/ c \in NestedLastCases
    \/ c \in TrailingOptCases
    \/ c \in SeqCases
    \/ c \in SeqOptCases
    \/ c \in UnionCases
    \/ c \in BasicCases

\* bytes put after the encoder's output before it is handed to from_bytes:
\* nothing, the header INT1|29 alone, the item INT1|29 = 1
Trailers == {<<>>, <<157>>, <<157, 1>>}

\* ------------------------------------------------------------------------
\* The primitive packer driven on a Vec<u8>

InitPack ==
    /\ ser = FreshSer
    /\ de = Deserializer_from_bytes(<<>>)
    /\ input = <<>>
    /\ value = None
    /\ call = [op |-> "new"]

PushTag ==
    \E w \in Wire, t \in PackTags :
        /\ ser.err = "Ok"
        /\ Len(ser.output) <= MaxPrefix
        /\ ser' = [ser EXCEPT !.output = push_tag(w, t, ser.output)]
        /\ call' = [op |-> "push_tag", wire |-> w, tag |-> t, pos |-> Len(ser.output)]
        /\ UNCHANGED <<de, input, value>>

PushI32 ==
    \E t \in PackTags, v \in I32Values :
        /\ ser.err = "Ok"
        /\ Len(ser.output) <= MaxPrefix
        /\ ser' = [ser EXCEPT !.output = push_i32(t, ToLE(v, 4), ser.output)]
        /\ call' = [op |-> "push_i32", tag |-> t, v |-> v, pos |-> Len(ser.output)]
        /\ UNCHANGED <<de, input, value>>

\* lengths at the edges of the three block classes, up to u32::MAX
LenValues ==
    {Usize(n) : n \in {0, 1, 255, 256, 65535, 65536, 16777216}}
    \cup {<<255, 255, 255, 127, 0, 0, 0, 0>>, <<0, 0, 0, 128, 0, 0, 0, 0>>,
          <<255, 255, 255, 255, 0, 0, 0, 0>>}

PushLen ==
    \E t \in PackTags, n \in LenValues :
        /\ ser.err = "Ok"
        /\ Len(ser.output) <= MaxPrefix
        /\ ~push_len_panics(n)
        /\ ser' = [ser EXCEPT !.output = push_len(t, n, ser.output)]
        /\ call' = [op |-> "push_len", tag |-> t, len |-> n, pos |-> Len(ser.output)]
        /\ UNCHANGED <<de, input, value>>

\* test_read_len on a buffer holding only what push_len wrote: get_tag, read_len
ReadLen ==
    /\ call.op = "push_len"
    /\ call.pos = 0
    /\ \E res \in {Try(get_tag(BinReader_new(ser.output), call.tag),
                        LAMBDA wire : read_len(wire.r, wire.v))} :
           /\ de' = [de EXCEPT !.reader = res.r]
           /\ call' = [op |-> "read_len", tag |-> call.tag, len |-> call.len,
                       err |-> res.err, v |-> res.v]
    /\ input' = ser.output
    /\ UNCHANGED <<ser, value>>

\* payloads with and without zero bytes, and the two lengths around the
\* declared length 256
PayloadValues ==
    UNION {[1..n -> {0, 222}] : n \in 0..MaxStrLen}
    \cup {[i \in 1..254 |-> i], [i \in 1..255 |-> i % 255]}

PushBytes ==
    \E t \in PackTags, p \in PayloadValues :
        /\ ser.err = "Ok"
        /\ Len(ser.output) <= MaxPrefix
        /\ ser' = [ser EXCEPT !.output = push_bytes(t, p, ser.output)]
        /\ call' = [op |-> "push_bytes", tag |-> t, bytes |-> p, pos |-> Len(ser.output)]
        /\ UNCHANGED <<de, input, value>>

\* test_read_tag on a buffer holding only what push_tag wrote: get_tag with
\* the tag of the header, or with the next tag
ReadTag ==
    \E next \in {0, 1} :
        /\ call.op = "push_tag"
        /\ call.pos = 0
        /\ call.tag + next <= 65535
        /\ \E res \in {get_tag(BinReader_new(ser.output), call.tag + next)} :
               /\ de' = [de EXCEPT !.reader = res.r]
               /\ call' = [op |-> "get_tag", wire |-> call.wire, tag |-> call.tag,
                           seek |-> call.tag + next, err |-> res.err, v |-> res.v]
        /\ input' = ser.output
        /\ UNCHANGED <<ser, value>>

\* push_repeated_len with a count up to 2^32; a failed assert! ends the run
PushRepeatedLen ==
    \E t \in PackTags, n \in LenValues \cup {<<0, 0, 0, 0, 1, 0, 0, 0>>} :
        /\ ser.err = "Ok"
        /\ Len(ser.output) <= MaxPrefix
        /\ ser' = IF push_repeated_len_panics(n) THEN Fail(ser, "Panic")
                  ELSE [ser EXCEPT !.output = push_repeated_len(t, n, ser.output)]
        /\ call' = [op |-> "push_repeated_len", tag |-> t, len |-> n, pos |-> Len(ser.output)]
        /\ UNCHANGED <<de, input, value>>

\* test_push_repeated_len of the reader on a buffer holding only what
\* push_repeated_len or push_len wrote: get_tag, read_repeated_len
ReadRepeatedLen ==
    /\ call.op \in {"push_repeated_len", "push_len"}
    /\ ser.err = "Ok"
    /\ call.pos = 0
    /\ \E res \in {Try(get_tag(BinReader_new(ser.output), call.tag),
                        LAMBDA wire : read_repeated_len(wire.r, wire.v))} :
           /\ de' = [de EXCEPT !.reader = res.r]
           /\ call' = [op |-> "read_repeated_len", from |-> call.op, tag |-> call.tag,
                       len |-> call.len, err |-> res.err, v |-> res.v]
    /\ input' = ser.output
    /\ UNCHANGED <<ser, value>>

NextPack ==
    \/ PushTag
    \/ PushI32
    \/ PushLen
    \/ ReadLen
    \/ PushBytes
    \/ ReadTag
    \/ PushRepeatedLen
    \/ ReadRepeatedLen

SpecPack == InitPack /\ [][NextPack]_vars

\* ------------------------------------------------------------------------
\* to_bytes on a value, then from_bytes on its output

Init ==
    /\ IsCase(value)
    /\ ser = FreshSer
    /\ de = Deserializer_from_bytes(<<>>)
    /\ input = <<>>
    /\ call = [op |-> "new"]

ToBytes ==
    /\ call.op = "new"
    /\ ser' = to_bytes(value.ty, value.v)
    /\ call' = [op |-> "to_bytes"]
    /\ UNCHANGED <<de, input, value>>

FromBytes ==
    \E extra \in Trailers :
        /\ call.op = "to_bytes"
        /\ ser.err = "Ok"
        /\ \E res \in {from_bytes(value.ty, ser.output \o extra)} :
               /\ de' = res.d
               /\ call' = [op |-> "from_bytes", err |-> res.err, v |-> res.v, extra |-> extra]
        /\ input' = ser.output \o extra
        /\ UNCHANGED <<ser, value>>

\* buffers that no encoder run produced, handed to from_bytes for the record
\* { n: i8, last: Option<i8> }: items at the tags 0, 1, 2 in and out of order
HandBuffers ==
    {<<128, 0, 129, 1>>, <<129, 1>>, <<130, 1>>, <<128, 0, 130, 1>>,
     <<129, 1, 130, 2>>, <<130, 2, 129, 1>>, <<128, 0, 129, 1, 130, 2>>, <<128, 0>>}

FromBytesBuffer ==
    \E buf \in HandBuffers :
        /\ call.op = "new"
        /\ value.ty = TrailingOptTy
        /\ \E res \in {from_bytes(value.ty, buf)} :
               /\ de' = res.d
               /\ call' = [op |-> "from_bytes_buffer", err |-> res.err, v |-> res.v]
        /\ input' = buf
        /\ UNCHANGED <<ser, value>>

\* from_bytes::<T> for a T that is not a record, on the same buffers
FromBytesTop ==
    \E buf \in HandBuffers :
        /\ call.op = "new"
        /\ value.ty.k # "struct"
        /\ \E res \in {from_bytes(value.ty, buf)} :
               /\ de' = res.d
               /\ call' = [op |-> "from_bytes_top", err |-> res.err, v |-> res.v]
        /\ input' = buf
        /\ UNCHANGED <<ser, value>>

\* buffers that no encoder run produced, for the records with two sequences:
\* counts below, equal to and above the number of tag-0 items that follow, an
\* element under the tag 1, a first field that is not REPEAT, a truncated
\* sequence, a count with bit 31 set
SeqBuffers(ty) ==
    IF ty = SeqTy
    THEN {<<225, 2, 0, 0, 0, 0, 1, 0, 0, 2, 97, 0, 226, 0, 0, 0, 0>>,
          <<225, 1, 0, 0, 0, 0, 1, 0, 0, 2, 97, 0, 226, 0, 0, 0, 0>>,
          <<225, 2, 0, 0, 0, 0, 1, 0, 1, 2, 97, 0, 226, 0, 0, 0, 0>>,
          <<225, 1, 0, 0, 0, 1, 1, 0, 226, 0, 0, 0, 0>>,
          <<1, 1, 0, 226, 0, 0, 0, 0>>,
          <<129, 1, 226, 0, 0, 0, 0>>,
          <<225, 2, 0, 0, 0, 0, 1, 0>>,
          <<225, 0, 0, 0, 0, 226, 1, 0, 0, 0, 64, 2, 0, 0, 0, 129, 5>>,
          <<225, 0, 0, 0, 0, 226, 0, 0, 0, 128>>}
    ELSE {<<225, 1, 0, 0, 0, 226, 0, 0, 0, 0>>,
          <<225, 1, 0, 0, 0, 128, 1, 226, 0, 0, 0, 0>>,
          <<225, 2, 0, 0, 0, 128, 1, 129, 2, 226, 0, 0, 0, 0>>,
          <<225, 0, 0, 0, 0, 226, 2, 0, 0, 0>>,
          <<129, 1, 226, 0, 0, 0, 0>>}

FromBytesSeq ==
    /\ call.op = "new"
    /\ value.ty \in {SeqTy, SeqOptTy}
    /\ \E buf \in SeqBuffers(value.ty) :
           /\ \E res \in {from_bytes(value.ty, buf)} :
                  /\ de' = res.d
                  /\ call' = [op |-> "from_bytes_seq", err |-> res.err, v |-> res.v]
           /\ input' = buf
    /\ UNCHANGED <<ser, value>>

\* buffers that no encoder run produced, for { inner: { a: i8 }, y: i8 } and
\* { l: VariantA, n: bool }: a frame that holds exactly the known field, a
\* frame that also holds an item the schema does not know, a frame declared
\* shorter than the known field
FrameBuffers(ty) ==
    IF ty = NestedFirstTy
    THEN {<<1, 2, 129, 5, 130, 7>>,
          <<1, 4, 129, 5, 130, 9, 130, 7>>,
          <<1, 4, 129, 5, 130, 9>>,
          <<1, 4, 129, 5, 129, 9, 130, 7>>,
          <<1, 0, 129, 5, 130, 7>>,
          <<1, 2, 129, 5>>}
    ELSE {<<65, 2, 0, 0, 0, 129, 42, 130, 1>>,
          <<65, 4, 0, 0, 0, 129, 42, 133, 1, 130, 1>>,
          <<65, 4, 0, 0, 0, 129, 42, 129, 1, 130, 1>>,
          <<65, 0, 0, 0, 0, 129, 42, 130, 1>>,
          <<1, 3, 2, 1, 0, 130, 1>>}

FromBytesFrame ==
    /\ call.op = "new"
    /\ value.ty \in {NestedFirstTy, UnionTy}
    /\ \E buf \in FrameBuffers(value.ty) :
           /\ \E res \in {from_bytes(value.ty, buf)} :
                  /\ de' = res.d
                  /\ call' = [op |-> "from_bytes_frame", err |-> res.err, v |-> res.v]
           /\ input' = buf
    /\ UNCHANGED <<ser, value>>

Next ==
    \/ ToBytes
    \/ FromBytes
    \/ FromBytesBuffer
    \/ FromBytesSeq
    \/ FromBytesFrame

Spec == Init /\ [][Next]_vars

\* to_bytes and from_bytes on values that are not records
InitTop ==
    /\ \E sequences \in BOOLEAN : value \in TopLevelCases(sequences)
    /\ ser = FreshSer
    /\ de = Deserializer_from_bytes(<<>>)
    /\ input = <<>>
    /\ call = [op |-> "new"]

NextTop ==
    \/ ToBytes
    \/ FromBytesTop

SpecTop == InitTop /\ [][NextTop]_vars

\* the bytes the last call appended to the output
Appended == SubSeq(ser.output, call.pos + 1, Len(ser.output))

\* C2: push_tag(w, t) appends exactly 1 + tag_len(t) bytes: (w<<5)|t when
\* t < 30, (w<<5)|30 then the byte t when 30 <= t <= 255, (w<<5)|31 then the
\* two little-endian bytes of t when t >= 256.
C2_HeaderEncoding ==
    call.op = "push_tag" =>
        LET w3 == call.wire \div 32
            t == call.tag
        IN  /\ Appended =
                 IF t < 30 THEN <<w3 * 32 + t>>
                 ELSE IF t <= 255 THEN <<w3 * 32 + 30, t>>
                 ELSE <<w3 * 32 + 31, (t % 256), (t \div 256)>>
            /\ Len(Appended) = 1 + tag_len(t)
            /\ SubSeq(ser.output, 1, call.pos) \o Appended = ser.output

C2_Witness ==
    /\ call.op = "push_tag"
    /\ call.tag = 65535
    /\ call.pos > 0
    /\ Len(Appended) = 3

\* C3: push_i32(tag, v) emits INT1 and one byte exactly when -128 <= v <= 127,
\* INT2 and two little-endian bytes exactly when v is otherwise within
\* -32768..32767, INT4 and four little-endian bytes in every other case; the
\* payload is the two's-complement image of v at that width.
C3_IntWidth ==
    call.op = "push_i32" =>
        LET v == call.v
            w == IF v >= -128 /\ v <= 127 THEN INT1
                 ELSE IF v >= -32768 /\ v <= 32767 THEN INT2 ELSE INT4
            n == IF w = INT1 THEN 1 ELSE IF w = INT2 THEN 2 ELSE 4
        IN  Appended = push_tag(w, call.tag, <<>>) \o ToLE(v, n)

C3_Witness ==
    /\ call.op = "push_i32"
    /\ call.v = -32769
    /\ Len(Appended) = 1 + tag_len(call.tag) + 4

\* C14: for every n <= 2^32-1, push_len(tag, n) emits the header BLK1 and one
\* length byte when n <= 255, BLK2 and two little-endian bytes when
\* 256 <= n <= 65535, BLK4 and four little-endian bytes otherwise; read_len on
\* those bytes returns n as an unsigned value.
C14_LenClasses ==
    LET n == call.len
        k == IF SubSeq(n, 2, 8) = Zeros(7) THEN 1
             ELSE IF SubSeq(n, 3, 8) = Zeros(6) THEN 2 ELSE 4
        w == IF k = 1 THEN BLK1 ELSE IF k = 2 THEN BLK2 ELSE BLK4
    IN  /\ call.op = "push_len" =>
               Appended = push_tag(w, call.tag, <<>>) \o SubSeq(n, 1, k)
        /\ call.op = "read_len" =>
               /\ call.err = "Ok"
               /\ call.v = n
               /\ is_empty(de.reader)
               /\ de.reader.total_read_len = Len(input)

C14_Witness ==
    /\ call.op = "read_len"
    /\ call.len = <<255, 255, 255, 255, 0, 0, 0, 0>>
    /\ call.tag = 65535
    /\ call.err = "Ok"
    /\ input = <<95, 255, 255, 255, 255, 255, 255>>

\* C15: for every tag and payload p, push_bytes emits a block-length header
\* declaring len(p)+1, then the bytes of p unchanged and in order, then exactly
\* one zero byte; nothing else is written.
C15_PushBytes ==
    call.op = "push_bytes" =>
        LET p == call.bytes
            hl == 1 + tag_len(call.tag)
            k == IF Len(p) + 1 <= 255 THEN 1 ELSE IF Len(p) + 1 <= 65535 THEN 2 ELSE 4
            w == IF k = 1 THEN BLK1 ELSE IF k = 2 THEN BLK2 ELSE BLK4
        IN  /\ SubSeq(ser.output, 1, call.pos) \o Appended = ser.output
            /\ Len(Appended) = hl + k + Len(p) + 1
            /\ SubSeq(Appended, 1, hl) = push_tag(w, call.tag, <<>>)
            /\ FromLE(SubSeq(Appended, hl + 1, hl + k)) = Len(p) + 1
            /\ SubSeq(Appended, hl + k + 1, hl + k + Len(p)) = p
            /\ Appended[Len(Appended)] = 0

C15_Witness ==
    /\ call.op = "push_bytes"
    /\ Len(call.bytes) = 255
    /\ call.tag = 256
    /\ call.pos > 0
    /\ Len(Appended) = 3 + 2 + 255 + 1

\* C19: for every wire class w and tag t, reading the bytes written by
\* push_tag(w, t) with get_tag(t) returns w and consumes exactly 1 + tag_len(t)
\* bytes; with only those bytes as input, get_tag(t+1) returns InputTooShort.
C19_HeaderInverse ==
    call.op = "get_tag" =>
        /\ call.seek = call.tag =>
               /\ call.err = "Ok"
               /\ call.v = call.wire
               /\ de.reader.total_read_len = 1 + tag_len(call.tag)
               /\ is_empty(de.reader)
        /\ call.seek = call.tag + 1 => call.err = "InputTooShort"

\* C21: push_repeated_len(tag, n) emits a REPEAT header for tag followed by n
\* as a 4-byte little-endian count for every n from 0 up to and including
\* 2^32-1; only a count beyond 2^32-1 is fatal.
C21_RepeatedLen ==
    call.op = "push_repeated_len" =>
        IF SubSeq(call.len, 5, 8) # Zeros(4)
        THEN ser.err = "Panic" /\ Len(ser.output) = call.pos
        ELSE /\ ser.err = "Ok"
             /\ Appended = push_tag(REPEAT, call.tag, <<>>) \o SubSeq(call.len, 1, 4)

\* C22: read_repeated_len decodes the REPEAT count as a 4-byte little-endian
\* unsigned integer: for every count written by the encoder the decoder
\* obtains exactly that count, counts with bit 31 set included; any wire class
\* other than REPEAT gives InvalidEncoding.
C22_ReadRepeatedLen ==
    call.op = "read_repeated_len" =>
        IF call.from = "push_repeated_len"
        THEN call.err = "Ok" /\ call.v = call.len
        ELSE call.err = "InvalidEncoding"

\* ------------------------------------------------------------------------
\* Properties of to_bytes and from_bytes (specification Spec)

\* C1: round trip: to_bytes(v) succeeds, and from_bytes on its output succeeds
\* and returns a value equal to v.
C1_RoundTrip ==
    /\ call.op = "to_bytes" => ser.err = "Ok"
    /\ (call.op = "from_bytes" /\ call.extra = <<>>) =>
            (call.err = "Ok" /\ call.v = value.v)

\* C4: a u32 or i64 field that fits in signed 32 bits is emitted by the
\* INT1/INT2/INT4 width rule; every other value, above 2^31-1 or below -2^31,
\* is emitted as QUAD followed by its 8-byte little-endian image.
C4_WideIntegers ==
    (call.op = "to_bytes" /\ value.ty \in {Struct(<<T("u32")>>), Struct(<<T("i64")>>)}) =>
        LET q == IF value.ty = Struct(<<T("u32")>>)
                 THEN ZeroExt(value.v[1], 8) ELSE value.v[1]
            fits(n) == SignExt(SubSeq(q, 1, n), 8) = q
        IN  ser.output =
                IF fits(1) THEN <<INT1 + 1>> \o SubSeq(q, 1, 1)
                ELSE IF fits(2) THEN <<INT2 + 1>> \o SubSeq(q, 1, 2)
                ELSE IF fits(4) THEN <<INT4 + 1>> \o SubSeq(q, 1, 4)
                ELSE <<QUAD + 1>> \o q

\* C5: a u64 field whose bit 63 is set is emitted as QUAD followed by its
\* 8-byte little-endian image.
C5_HighBitQuad ==
    (call.op = "to_bytes" /\ value.ty = Struct(<<T("u64")>>) /\ IsNeg(value.v[1])) =>
        ser.output = <<QUAD + 1>> \o value.v[1]

\* C6: for every nested record the encoder has emitted, at every offset of the
\* output (offset 0 included), the reserved slot holds a BLK4 header with the
\* record's field tag followed by the 4-byte little-endian count of the bytes
\* emitted for the record's body.
C6_NestedFraming ==
    call.op = "to_bytes" =>
        \A i \in 1..Len(ser.structs) :
            LET e == ser.structs[i]
                slot == tag_len(e.struct_tag) + 1 + 4
            IN  e.nested =>
                    SubSeq(ser.output, e.struct_pos + 1, e.struct_pos + slot)
                        = push_tag(BLK4, e.struct_tag, <<>>)
                          \o ToLE(e.end_pos - e.struct_pos - slot, 4)

\* C8: an optional field of a nested record that is sought when the cursor has
\* reached the end offset of the record's frame decodes as absent: no byte
\* after the frame is taken as a field of the nested record.
C8_BoundedRecord ==
    call.op = "from_bytes" =>
        \A i \in 1..Len(de.fields) : de.fields[i].opt => ~de.fields[i].present

\* C9: when T::deserialize succeeds and an input byte lies after the payload
\* of the last field decoded or skipped, from_bytes returns TrailingCharacters.
C9_WholeInput ==
    (/\ call.op = "from_bytes"
     /\ call.err \in {"Ok", "TrailingCharacters"}
     /\ de.reader.payload_end < Len(input)) =>
        call.err = "TrailingCharacters"

\* C12: from_bytes on the buffer 80 00 81 01 for a record with a required
\* field at tag 1 and a field at tag 2 returns InvalidEncoding; in general the
\* decode fails when the first header of the buffer does not carry the tag of
\* the required first field.
C12_RequiredInOrder ==
    call.op = "from_bytes_buffer" =>
        /\ input = <<128, 0, 129, 1>> => call.err = "InvalidEncoding"
        /\ input[1] % 32 # 1 => call.err # "Ok"

\* C20: the encoder emits the i-th declared field of a record under tag i, a
\* field that emits no bytes still uses up its tag number, so the tags of the
\* headers written for one record's own fields are strictly ascending.  The
\* records here have fewer than 30 fields: a header's tag is in its first byte.
C20_TagOrder ==
    call.op = "to_bytes" =>
        LET wrote(e) == e.end_pos > e.start
            tag(e) == ser.output[e.start + 1] % 32
        IN  /\ \A j \in 1..Len(ser.emitted) :
                   wrote(ser.emitted[j]) => tag(ser.emitted[j]) = ser.emitted[j].index
            /\ \A j, k \in 1..Len(ser.emitted) :
                   LET a == ser.emitted[j]
                       b == ser.emitted[k]
                   IN  (/\ j < k
                        /\ a.struct_pos = b.struct_pos
                        /\ a.nested = b.nested
                        /\ wrote(a)
                        /\ wrote(b)) => tag(a) < tag(b)

\* size in bytes of the item whose header is the byte p of b: the header and
\* the payload of its wire class (for REPEAT, the 4-byte count)
ItemSpan(b, p) ==
    LET hl == 1 + (IF b[p] % 32 = 30 THEN 1 ELSE IF b[p] % 32 = 31 THEN 2 ELSE 0)
        w == b[p] - (b[p] % 32)
    IN  hl + (CASE w = INT1 -> 1
                [] w = INT2 -> 2
                [] w = INT4 -> 4
                [] w = QUAD -> 8
                [] w = BLK1 -> 1 + b[p + hl]
                [] w = BLK2 -> 2 + FromLE(SubSeq(b, p + hl, p + hl + 1))
                [] w = BLK4 -> 4 + FromLE(SubSeq(b, p + hl, p + hl + 3))
                [] w = REPEAT -> 4)

\* number of items with tag 0 among the items laid out in the bytes p..e of b
RECURSIVE Tag0Items(_, _, _)
Tag0Items(b, p, e) ==
    IF p > e THEN 0
    ELSE (IF b[p] % 32 = 0 THEN 1 ELSE 0) + Tag0Items(b, p + ItemSpan(b, p), e)

\* C13: for every sequence the encoder emitted, the 4-byte count written after
\* its REPEAT header equals the number of tag-0 items that follow it in the
\* output as its elements, elements of optional or unit type included.
C13_RepeatCount ==
    \A i \in 1..Len(ser.seqs) :
        LET e == ser.seqs[i]
            hl == 1 + tag_len(e.seq_tag)
            count == FromLE(SubSeq(ser.output, e.seq_pos + hl + 1, e.seq_pos + hl + 4))
        IN  /\ ser.output[e.seq_pos + 1] - (ser.output[e.seq_pos + 1] % 32) = REPEAT
            /\ count = Tag0Items(ser.output, e.seq_pos + hl + 4 + 1, e.end_pos)

\* C17: a union value under field tag t is emitted as a BLK4 header with tag t
\* and a 4-byte little-endian length, followed by a body that is exactly one
\* tagged value whose tag is the chosen arm's tag; the declared length equals
\* the byte size of that body, and after the union is emitted the encoder's
\* current tag is t again.
C17_UnionEncoding ==
    \A t \in 1..2 :
        (call.op = "to_bytes" /\ Len(value.ty.fs) = 2 /\ value.ty.fs[t].k = "enum") =>
            LET o == ser.output
                \* the bool field before the union is one INT1 item of two bytes
                pos == IF t = 1 THEN 0 ELSE 2
                declared == FromLE(SubSeq(o, pos + 2, pos + 5))
                body == SubSeq(o, pos + 6, pos + 5 + declared)
            IN  /\ ser.err = "Ok"
                /\ o[pos + 1] = BLK4 + t
                /\ declared >= 1
                /\ pos + 5 + declared <= Len(o)
                /\ body[1] % 32 = value.v[t][1]
                /\ ItemSpan(body, 1) = declared
                /\ t = 1 => SubSeq(o, pos + 6 + declared, Len(o)) = <<INT1 + 2, 1>>
                /\ t = 2 => (pos + 5 + declared = Len(o) /\ ser.current_tag = Some(t))

C17_Witness ==
    /\ call.op = "to_bytes"
    /\ value.ty = Struct(<<UnionTy.fs[2], UnionTy.fs[1]>>)
    /\ value.v[2] = <<2, <<97, 98>>>>
    /\ ser.output = <<129, 1, 66, 5, 0, 0, 0, 2, 3, 97, 98, 0>>
    /\ ser.current_tag = Some(2)

\* ------------------------------------------------------------------------
\* A BinReader driven on a buffer of items

\* most sub-items of a REPEAT item, most bytes cut off the end of a buffer
MaxRepeat == 2

MaxTrunc == 1

SubWires == {BLK1, INT1, REPEAT}

RECURSIVE Concat(_)
Concat(ss) == IF ss = <<>> THEN <<>> ELSE Head(ss) \o Concat(Tail(ss))

\* one payload for each wire class
SubBody(w) ==
    CASE w = BLK1 -> <<1, 170>>
      [] w = BLK2 -> <<1, 0, 170>>
      [] w = BLK4 -> <<1, 0, 0, 0, 170>>
      [] w = QUAD -> <<1, 2, 3, 4, 5, 6, 7, 8>>
      [] w = INT1 -> <<17>>
      [] w = INT2 -> <<17, 34>>
      [] w = INT4 -> <<17, 34, 51, 68>>
      [] w = REPEAT -> <<0, 0, 0, 0>>

\* the payloads of an item of the wire class: for REPEAT the count and that
\* many sub-items with tag 0
Bodies(w) ==
    CASE w = BLK1 -> {<<0>>, <<2, 170, 187>>, <<2, 170, 0>>}
      [] w = BLK2 -> {<<0, 0>>, <<1, 0, 170>>}
      [] w = BLK4 -> {<<0, 0, 0, 0>>, <<1, 0, 0, 0, 170>>}
      [] w = QUAD -> {<<1, 2, 3, 4, 5, 6, 7, 8>>, <<2, 0, 0, 0, 0, 0, 0, 0>>}
      [] w = INT1 -> {<<17>>}
      [] w = INT2 -> {<<17, 34>>}
      [] w = INT4 -> {<<17, 34, 51, 68>>}
      [] w = REPEAT ->
            {ToLE(Len(ws), 4) \o Concat([i \in 1..Len(ws) |-> <<ws[i]>> \o SubBody(ws[i])]) :
                ws \in UNION {[1..n -> SubWires] : n \in 0..MaxRepeat}}

ItemsAt(tag, wires) ==
    UNION {{[wire |-> w, tag |-> tag, body |-> b] : b \in Bodies(w)} : w \in wires}

ItemBytes(it) == push_tag(it.wire, it.tag, <<>>) \o it.body

\* buffers with at most one item at each of the tags 1, 2 and 5, in this order
Buffers ==
    {first \o second \o third :
        first \in {<<>>} \cup {<<it>> : it \in ItemsAt(1, {INT1, BLK2})},
        second \in {<<>>} \cup {<<it>> : it \in ItemsAt(2, Wire)},
        third \in {<<>>} \cup {<<[wire |-> w, tag |-> 5, body |-> SubBody(w)]>> : w \in Wire}}

BufferBytes(items) == Concat([i \in 1..Len(items) |-> ItemBytes(items[i])])

SeekTags == {1, 2, 5, 6}

InitRead ==
    /\ \E items \in Buffers, cut \in 0..MaxTrunc :
        /\ cut <= Len(BufferBytes(items))
        /\ value = [items |-> items, cut |-> cut]
        /\ input = SubSeq(BufferBytes(items), 1, Len(BufferBytes(items)) - cut)
    /\ de = Deserializer_from_bytes(input)
    /\ ser = FreshSer
    /\ call = [op |-> "new"]

\* an error aborts the decode: no method is called on the reader after it
Running == IF call.op = "new" THEN TRUE ELSE call.err = "Ok"

GetTag ==
    \E t \in SeekTags :
        /\ Running
        /\ \E res \in {get_tag(de.reader, t)} :
               /\ de' = [de EXCEPT !.reader = res.r]
               /\ call' = [op |-> "get_tag", tag |-> t, before |-> de.reader,
                           err |-> res.err, v |-> res.v]
        /\ UNCHANGED <<ser, input, value>>

GetOptionalTag ==
    \E t \in SeekTags :
        /\ Running
        /\ \E res \in {get_optional_tag(de.reader, t)} :
               /\ de' = [de EXCEPT !.reader = res.r]
               /\ call' = [op |-> "get_optional_tag", tag |-> t, before |-> de.reader,
                           err |-> res.err, v |-> res.v]
        /\ UNCHANGED <<ser, input, value>>

\* the payload of the header get_tag has just matched is consumed
SkipData ==
    /\ call.op = "get_tag"
    /\ call.err = "Ok"
    /\ \E res \in {skip_data(de.reader, call.v)} :
           /\ de' = [de EXCEPT !.reader = res.r]
           /\ call' = [op |-> "skip_data", wire |-> call.v, before |-> de.reader,
                       err |-> res.err, v |-> res.v]
    /\ UNCHANGED <<ser, input, value>>

\* the payload of the header get_tag has just matched is read as a byte string
ReadBytes ==
    /\ call.op = "get_tag"
    /\ call.err = "Ok"
    /\ \E res \in {read_bytes(de.reader, call.v)} :
           /\ de' = [de EXCEPT !.reader = res.r]
           /\ call' = [op |-> "read_bytes", wire |-> call.v, before |-> de.reader,
                       err |-> res.err, v |-> res.v]
    /\ UNCHANGED <<ser, input, value>>

NextRead ==
    \/ GetTag
    \/ GetOptionalTag
    \/ SkipData
    \/ ReadBytes

SpecRead == InitRead /\ [][NextRead]_vars

\* ------------------------------------------------------------------------
\* One call of get_tag or get_optional_tag, one step per iteration of the loop
\* of skip_upto_tag (specification SpecSeek)

\* an iteration of `while hdr.tag < target_tag` that consumes nothing
skip_upto_tag_iteration_stuck(r, hdr) == Ok(r, hdr)

\* the body of `while hdr.tag < target_tag`: the payload of hdr is skipped and
\* the next header is read
skip_upto_tag_iteration(r, hdr) ==
    Try(skip_data(r, hdr.wire), LAMBDA sk : read_hdr(sk.r))

\* the `?` of skip_upto_tag as the caller sees it: get_optional_tag turns
\* InputTooShort into an answer, get_tag returns every error
SeekFailed(c, err) ==
    [c EXCEPT !.pc = "return",
              !.err = IF c.op = "get_optional_tag" /\ err = "InputTooShort"
                      THEN "Ok" ELSE err]

\* the buffers of a call: an item at the tag 2 of every wire class and
\* payload, between optional items at the tags 1 and 5
SeekBuffers ==
    {items \in Buffers :
        \A i \in 1..Len(items) : items[i].tag # 2 => items[i].wire = INT1}

InitSeek ==
    /\ value = [items |-> <<>>, cut |-> 0]
    /\ input = <<>>
    /\ de = Deserializer_from_bytes(<<>>)
    /\ ser = FreshSer
    /\ call = [op |-> "new", pc |-> "new", tag |-> 0, hdr |-> None, err |-> "Ok"]

\* the call starts on a fresh reader, or on one whose lookahead holds the
\* first header (get_next_tag_value was called before)
StartSeek ==
    /\ call.pc = "new"
    /\ \E items \in SeekBuffers, cut \in 0..MaxTrunc :
        /\ cut <= Len(BufferBytes(items))
        /\ value' = [items |-> items, cut |-> cut]
        /\ input' = SubSeq(BufferBytes(items), 1, Len(BufferBytes(items)) - cut)
    /\ \E parked \in BOOLEAN :
        de' = IF parked
              THEN Lift(Deserializer_from_bytes(input'),
                        get_next_tag_value(BinReader_new(input'))).d
              ELSE Deserializer_from_bytes(input')
    /\ \E op \in {"get_tag", "get_optional_tag"}, t \in SeekTags :
        call' = [op |-> op, pc |-> "entry", tag |-> t, hdr |-> None, err |-> "Ok"]
    /\ UNCHANGED ser

\* let mut hdr = match self.current_hdr.take() { ... }
TakeHeader ==
    /\ call.pc = "entry"
    /\ \E res \in {IF de.reader.current_hdr # None
                   THEN Ok([de.reader EXCEPT !.current_hdr = None], de.reader.current_hdr[1])
                   ELSE read_hdr(de.reader)} :
           /\ de' = [de EXCEPT !.reader = res.r]
           /\ call' = IF res.err = "Ok"
                       THEN [call EXCEPT !.pc = "loop", !.hdr = Some(res.v)]
                       ELSE SeekFailed(call, res.err)
    /\ UNCHANGED <<ser, input, value>>

LoopIteration ==
    /\ call.pc = "loop"
    /\ call.hdr[1].tag < call.tag
    /\ \E res \in {skip_upto_tag_iteration(de.reader, call.hdr[1])} :
           /\ de' = [de EXCEPT !.reader = res.r]
           /\ call' = IF res.err = "Ok"
                       THEN [call EXCEPT !.hdr = Some(res.v)]
                       ELSE SeekFailed(call, res.err)
    /\ UNCHANGED <<ser, input, value>>

\* the loop is left: get_optional_tag parks the header, get_tag rejects a
\* header beyond the target
Return ==
    /\ call.pc = "loop"
    /\ call.hdr[1].tag >= call.tag
    /\ de' = IF call.op = "get_optional_tag"
              THEN [de EXCEPT !.reader.current_hdr = call.hdr]
              ELSE de
    /\ call' = [call EXCEPT !.pc = "return",
                             !.err = IF call.op = "get_tag" /\ call.hdr[1].tag > call.tag
                                     THEN "InvalidEncoding" ELSE "Ok"]
    /\ UNCHANGED <<ser, input, value>>

NextSeek ==
    \/ StartSeek
    \/ TakeHeader
    \/ LoopIteration
    \/ Return

\* a call that has started runs on its caller's thread and keeps taking
\* steps until it returns; whether a call is made is up to the caller
SpecSeek ==
    /\ InitSeek
    /\ [][NextSeek]_vars
    /\ WF_vars(TakeHeader) /\ WF_vars(LoopIteration) /\ WF_vars(Return)

\* ------------------------------------------------------------------------
\* Properties of the reader (specification SpecRead)

\* C7: in a complete buffer with items at the tags 1, 2 and 5, whatever the
\* wire class of the tag-2 item, once the tag-1 item is consumed get_tag(5)
\* succeeds, returns the wire class of the tag-5 item and leaves the cursor on
\* the first payload byte of the tag-5 item.
C7_ForwardSkipping ==
    (/\ call.op = "get_tag"
     /\ call.tag = 5
     /\ value.cut = 0
     /\ Len(value.items) = 3
     /\ call.before.current_hdr = None
     /\ call.before.total_read_len = Len(ItemBytes(value.items[1]))) =>
        /\ call.err = "Ok"
        /\ call.v = value.items[3].wire
        /\ de.reader.total_read_len = Len(input) - Len(value.items[3].body)

\* C10: get_tag(expected) called between two items, with no header held back:
\* among the items not yet read, the first whose tag is >= expected decides
\* the result: its wire class when the tag equals expected, InvalidEncoding
\* when the tag is greater; InputTooShort when the input ends before the
\* header of such an item is read.
C10_GetTag ==
    LET items == value.items
        start(k) == Len(BufferBytes(SubSeq(items, 1, k - 1)))
        hdr_end(k) == start(k) + 1 + tag_len(items[k].tag)
        at == {k \in 1..(Len(items) + 1) : start(k) = call.before.total_read_len}
    IN  (/\ call.op = "get_tag"
         /\ call.before.current_hdr = None
         /\ at # {}) =>
            LET first == CHOOSE k \in at : TRUE
                found == {k \in first..Len(items) :
                             items[k].tag >= call.tag /\ hdr_end(k) <= Len(input)}
            IN  IF found = {} THEN call.err = "InputTooShort"
                ELSE LET j == CHOOSE k \in found : \A m \in found : k <= m
                     IN  IF items[j].tag = call.tag
                         THEN call.err = "Ok" /\ call.v = items[j].wire
                         ELSE call.err = "InvalidEncoding"

\* C11: get_optional_tag(expected) called between two items, or with the
\* header of the next item held back.  InputTooShort never reaches the
\* caller; any other error raised by the search (InvalidEncoding while
\* skipping) is returned unchanged; otherwise, among the items not yet
\* consumed, the first whose tag is >= expected decides the result: present
\* with its wire class when the tag equals expected, absent when the tag is
\* greater, absent when the input ends before such a header is read.
C11_GetOptionalTag ==
    LET items == value.items
        before == call.before
        start(k) == Len(BufferBytes(SubSeq(items, 1, k - 1)))
        hdr_end(k) == start(k) + 1 + tag_len(items[k].tag)
        at == {k \in 1..(Len(items) + 1) :
                  IF before.current_hdr = None
                  THEN start(k) = before.total_read_len
                  ELSE /\ k <= Len(items)
                       /\ hdr_end(k) = before.total_read_len
                       /\ before.current_hdr[1] = [wire |-> items[k].wire, tag |-> items[k].tag]}
        searched == skip_upto_tag(before, call.tag)
    IN  call.op = "get_optional_tag" =>
            /\ call.err # "InputTooShort"
            /\ searched.err \notin {"Ok", "InputTooShort"} => call.err = searched.err
            /\ (at # {} /\ searched.err \in {"Ok", "InputTooShort"}) =>
                LET first == CHOOSE k \in at : TRUE
                    found == {k \in first..Len(items) :
                                 items[k].tag >= call.tag /\ hdr_end(k) <= Len(input)}
                IN  /\ call.err = "Ok"
                    /\ IF found = {} THEN call.v = None
                       ELSE LET j == CHOOSE k \in found : \A m \in found : k <= m
                            IN  call.v = IF items[j].tag = call.tag
                                         THEN Some(items[j].wire) ELSE None

\* a search that ran out of input after skipping two items, answered absent
C11_Witness ==
    /\ call.op = "get_optional_tag"
    /\ Len(value.items) = 3
    /\ call.before.total_read_len = 0
    /\ call.tag = 6
    /\ skip_upto_tag(call.before, call.tag).err = "InputTooShort"
    /\ call.err = "Ok"
    /\ call.v = None

\* read_bytes as the byte-string rule describes it, the wire classes of
\* `frames` being the ones that carry a length (of 1, 2, 4 or 8 bytes)
ReadBytesRule(frames) ==
    LET b == call.before.slice
        k == IF call.wire \notin frames THEN 0
             ELSE CASE call.wire = BLK1 -> 1
                    [] call.wire = BLK2 -> 2
                    [] call.wire = BLK4 -> 4
                    [] call.wire = QUAD -> 8
        \* a declared length of 2^24 or more is beyond every buffer here
        huge == SubSeq(b, 4, k) # Zeros(k - 3)
        n == FromLE(SubSeq(b, 1, k))
        consumed == de.reader.total_read_len - call.before.total_read_len
    IN  IF k = 0 THEN call.err = "InvalidEncoding"
        ELSE IF Len(b) < k THEN call.err = "InputTooShort"
        ELSE IF k >= 4 /\ huge THEN call.err = "InputTooShort"
        ELSE IF n = 0 THEN call.err = "InvalidEncoding"
        ELSE IF Len(b) < k + n THEN call.err = "InputTooShort"
        ELSE IF b[k + n] # 0 THEN call.err = "InvalidEncoding" /\ consumed = k + n
        ELSE /\ call.err = "Ok"
             /\ call.v = SubSeq(b, k + 1, k + n - 1)
             /\ consumed = k + n

\* C16: read_bytes returns InvalidEncoding when the declared length is 0;
\* otherwise it consumes declared_length-1 bytes as the payload and then one
\* more byte, returning InvalidEncoding when that byte is not zero and the
\* payload when it is zero; a wire class other than BLK1, BLK2, BLK4 is
\* InvalidEncoding and too few remaining bytes is InputTooShort.
C16_ReadBytes == call.op = "read_bytes" => ReadBytesRule({BLK1, BLK2, BLK4})

\* C16 as the code has it: QUAD too carries a length, of 8 bytes; only the
\* wire classes INT1, INT2, INT4 and REPEAT are InvalidEncoding.
C16_ReadBytesQuad == call.op = "read_bytes" => ReadBytesRule({BLK1, BLK2, BLK4, QUAD})

C16_Witness ==
    /\ call.op = "read_bytes"
    /\ call.wire = QUAD
    /\ call.err = "Ok"
    /\ call.v = <<229>>
    /\ de.reader.total_read_len - call.before.total_read_len = 10

\* C18: when the next unread header's tag is greater than the expected tag, or
\* the input is exhausted, get_optional_tag returns absent and the
\* total-bytes-read counter is the same as before the call; a present optional
\* field consumes exactly its header (its payload is consumed by the read that
\* follows).  The tags of the buffers are below 30: a header is one byte.
C18_AbsentConsumesNothing ==
    (call.op = "get_optional_tag" /\ call.before.current_hdr = None) =>
        LET b == call.before.slice
            consumed == de.reader.total_read_len - call.before.total_read_len
        IN  /\ (b = <<>> \/ b[1] % 32 > call.tag) =>
                   (call.err = "Ok" /\ call.v = None /\ consumed = 0)
            /\ (b # <<>> /\ b[1] % 32 = call.tag) =>
                   (call.err = "Ok" /\ call.v = Some(Wire_from(b[1])) /\ consumed = 1)

\* C23: encoding or decoding a primitive (integer, bool, float, char, string)
\* or a sequence while no current tag is set, as happens for a top-level value
\* that is not a record, returns Err(MissingTag) and no byte is written to the
\* output or read from the input.
C23_MissingTag ==
    /\ call.op = "to_bytes" => (ser.err = "MissingTag" /\ ser.output = <<>>)
    /\ call.op = "from_bytes_top" =>
           /\ call.err = "MissingTag"
           /\ de.reader.slice = input
           /\ de.reader.total_read_len = 0
           /\ de.reader.current_hdr = None

C23_Witness ==
    /\ call.op = "from_bytes_top"
    /\ value.ty = SeqOf(T("i8"))
    /\ input = <<128, 0, 129, 1>>
    /\ call.err = "MissingTag"

\* C24: deserialize_seq fails with InvalidEncoding unless the field's header
\* has wire class REPEAT; otherwise it yields exactly the declared count of
\* elements, each decoded with the current tag set to 0, so an element whose
\* header carries a non-zero tag makes the decode fail with InvalidEncoding,
\* and it yields no element after the count is reached.  The first sequence of
\* the buffers is the field 1 and declares at most two elements.
C24_SeqDecoding ==
    call.op = "from_bytes_seq" =>
        LET b == input
            count == FromLE(SubSeq(b, 2, 5))
            second == 6 + ItemSpan(b, 6)
        IN  IF b[1] # REPEAT + 1 THEN call.err = "InvalidEncoding"
            ELSE /\ (count >= 1 /\ Len(b) >= 6 /\ b[6] % 32 # 0) =>
                        call.err = "InvalidEncoding"
                 /\ (count = 2 /\ Len(b) >= 6 /\ b[6] % 32 = 0
                                /\ Len(b) >= second /\ b[second] % 32 # 0) =>
                        call.err = "InvalidEncoding"
                 /\ call.err = "Ok" => Len(call.v[1]) = count

\* the reader of a decode of { l: VariantA, n: bool } or { n: bool, l: VariantA }
\* right after the frame length of the union was read: the union is the field
\* 1 at the offset 0, or the field 2 behind the two bytes of the bool
UnionFrameReader ==
    LET tag == IF value.ty = UnionTy THEN 1 ELSE 2
    IN  Try(get_tag(BinReader_new(input), tag), LAMBDA wire : read_len(wire.r, wire.v))

\* C25: after the frame length of a union is read, the arm is chosen by
\* peeking the next header: the selected arm tag equals that header's tag, the
\* peek stores the header in the lookahead without losing it, and the payload
\* decode under that tag matches the same header (get_tag reads no byte and
\* empties the lookahead) and reads its payload exactly once: the decode gives
\* back the encoded arm and payload and ends at the end of the input.
C25_UnionPeek ==
    (/\ call.op = "from_bytes"
     /\ value.ty \in {UnionTy, Struct(<<UnionTy.fs[2], UnionTy.fs[1]>>)}
     /\ call.extra = <<>>) =>
        LET framed == UnionFrameReader
            peek == get_next_tag_value(framed.r)
            matched == get_tag(peek.r, peek.v)
            hdr == input[framed.r.total_read_len + 1]
            arm == IF value.ty = UnionTy THEN call.v[1] ELSE call.v[2]
        IN  /\ framed.err = "Ok" /\ peek.err = "Ok" /\ matched.err = "Ok"
            /\ peek.v = hdr % 32
            /\ peek.r.current_hdr = Some([wire |-> Wire_from(hdr), tag |-> hdr % 32])
            /\ peek.r.total_read_len = framed.r.total_read_len + 1
            /\ matched.v = Wire_from(hdr)
            /\ matched.r = [peek.r EXCEPT !.current_hdr = None]
            /\ call.err = "Ok"
            /\ arm[1] = peek.v
            /\ call.v = value.v
            /\ de.reader.total_read_len = Len(input)
            /\ de.reader.current_hdr = None

\* a union whose arm Us(String) is selected by the header BLK1|2
C25_Witness ==
    /\ call.op = "from_bytes" /\ call.extra = <<>> /\ call.err = "Ok"
    /\ value.ty = UnionTy
    /\ input[6] = BLK1 + 2
    /\ call.v[1][1] = 2

\* C26: when a nested record or a union with declared frame length L is
\* decoded successfully, the total-bytes-read counter at the end of that decode
\* equals the counter value right after the length was read plus L: what is
\* left of the frame after the known fields is skipped, and no byte beyond the
\* frame is consumed.
C26_FrameExact ==
    \A i \in 1..Len(de.frames) :
        Usize(de.frames[i].end_pos) = AddTo(de.frames[i].len, de.frames[i].start)

\* C27: in every reachable state of a BinReader, after any sequence of header
\* reads, skips and payload reads, successful or failed, total_read_len plus
\* the length of the remaining slice equals the length of the original input,
\* and total_read_len never decreases.
C27_ByteAccounting ==
    /\ [](de.reader.total_read_len + Len(de.reader.slice) = Len(input))
    /\ [][de'.reader.total_read_len >= de.reader.total_read_len]_vars

\* a payload read that failed after the reader had consumed a header
C27_Witness ==
    /\ call.op \in {"skip_data", "read_bytes"}
    /\ call.err = "InputTooShort"
    /\ de.reader.total_read_len > 0
    /\ de.reader.slice # <<>>

\* the reader as it was before the header of its lookahead was read
Unread(r) ==
    LET n == 1 + tag_len(r.current_hdr[1].tag)
    IN  [r EXCEPT !.slice = SubSeq(input, r.total_read_len - n + 1, Len(input)),
                  !.total_read_len = @ - n,
                  !.current_hdr = None]

\* C28: when get_optional_tag(t) returns present(w), the matched header is
\* kept in the one-element lookahead, and the get_tag(t) that immediately
\* follows returns the same w without reading any input byte and leaves the
\* lookahead empty; when get_optional_tag(t) returns absent because a header
\* with tag u > t was read, that header stays in the lookahead and is the first
\* header examined by the next get_tag or get_optional_tag: the next call
\* answers as it would on a reader that had not read that header yet.
C28_LookaheadHandOff ==
    [][(call.op = "get_optional_tag" /\ call.err = "Ok") =>
          /\ call.v # None =>
                 /\ de.reader.current_hdr # None
                 /\ de.reader.current_hdr[1] = [wire |-> call.v[1], tag |-> call.tag]
                 /\ (call'.op = "get_tag" /\ call'.tag = call.tag) =>
                        /\ call'.err = "Ok"
                        /\ call'.v = call.v[1]
                        /\ de'.reader = [de.reader EXCEPT !.current_hdr = None]
          /\ (call.v = None /\ de.reader.current_hdr # None) =>
                 /\ de.reader.current_hdr[1].tag > call.tag
                 /\ de.reader.current_hdr[1].wire
                        = Wire_from(input[de.reader.total_read_len])
                 /\ de.reader.current_hdr[1].tag = input[de.reader.total_read_len] % 32
                 /\ call'.op = "get_tag" =>
                        LET res == get_tag(Unread(de.reader), call'.tag)
                        IN  call'.err = res.err /\ call'.v = res.v /\ de'.reader = res.r
                 /\ call'.op = "get_optional_tag" =>
                        LET res == get_optional_tag(Unread(de.reader), call'.tag)
                        IN  call'.err = res.err /\ call'.v = res.v /\ de'.reader = res.r
      ]_vars

\* get_tag(t) right after get_optional_tag(t) answered present
C28_Witness ==
    /\ call.op = "get_tag"
    /\ call.err = "Ok"
    /\ call.before.current_hdr # None
    /\ call.before.current_hdr[1].tag = call.tag
    /\ de.reader.total_read_len = call.before.total_read_len
    /\ de.reader.current_hdr = None

\* the header parked by an absent answer is the one the next seek skips
C28_WitnessAbsent ==
    /\ call.op = "get_tag"
    /\ call.err = "Ok"
    /\ call.before.current_hdr # None
    /\ call.before.current_hdr[1].tag < call.tag

\* C29: on every finite input and for every target tag, get_tag and
\* get_optional_tag terminate, because each iteration of the skip_upto_tag
\* loop either fails or consumes at least one input byte (the next header),
\* and the loop of skip_data over the sub-items of a REPEAT consumes at least
\* one byte per sub-item.
C29_Terminates ==
    /\ (call.pc = "entry") ~> (call.pc = "return")
    /\ [][(call.pc = "loop" /\ call'.pc = "loop") =>
              de'.reader.total_read_len > de.reader.total_read_len]_vars
    /\ [](\A len \in {Usize(1), Usize(2)} :
              LET res == skip_items(de.reader, len)
              IN  res.err = "Ok" =>
                      res.r.total_read_len >= de.reader.total_read_len + FromLE(len))

\* get_tag(5) that returned after skipping the items at the tags 1 and 2
C29_Witness ==
    /\ call.pc = "return"
    /\ call.op = "get_tag"
    /\ call.tag = 5
    /\ call.err = "Ok"
    /\ Len(value.items) = 3
    /\ de.reader.total_read_len > 2

\* ------------------------------------------------------------------------
\* The futures completed by a callback: QueryFuture and ConnectFuture of
\* ic.rs, Timer of el_future.rs (specification SpecFuture).  `value` holds the
\* Arc<Mutex<..>> shared by the future and the callback (the state and the
\* owner of the mutex), `call` the positions of the task that polls and of the
\* callback; `ser`, `de` and `input` are not used.

\* most calls of the completion callback
MaxEvents == 2

FutureKinds == {"QueryFuture", "ConnectFuture", "Timer"}

\* QueryState { result: None, waker: None }, ConnectState { res: None, waker:
\* None }, TimerState { fired: false, waker: None }
NewState(kind) ==
    IF kind = "Timer" THEN [fired |-> FALSE, waker |-> None]
    ELSE [result |-> None, waker |-> None]

\* QueryFuture::poll and ConnectFuture::poll: out is Some(r) for Ready(r),
\* None for Pending
Future_poll(state, waker) ==
    IF state.result # None
    THEN [state |-> [state EXCEPT !.result = None], out |-> state.result]
    ELSE [state |-> [state EXCEPT !.waker = Some(waker)], out |-> None]

Timer_poll(state, waker) ==
    IF state.fired
    THEN [state |-> state, out |-> Some("fired")]
    ELSE [state |-> [state EXCEPT !.waker = Some(waker)], out |-> None]

\* the results a callback can be called with
CallbackResults(kind) ==
    CASE kind = "QueryFuture" -> {"Ok", "Err"}
      [] kind = "ConnectFuture" -> {"IC_EVT_CONNECTED", "IC_EVT_DISCONNECTED", "IC_EVT_ACT"}
      [] kind = "Timer" -> {"fired"}

\* msg_cb: state.result = Some(res); on_event: state.res is set for the events
\* CONNECTED and DISCONNECTED only; the timer callback: state.fired = true
Callback_store(kind, state, res) ==
    CASE kind = "QueryFuture" -> [state EXCEPT !.result = Some(res)]
      [] kind = "ConnectFuture" ->
            IF res = "IC_EVT_CONNECTED" THEN [state EXCEPT !.result = Some(TRUE)]
            ELSE IF res = "IC_EVT_DISCONNECTED" THEN [state EXCEPT !.result = Some(FALSE)]
            ELSE state
      [] kind = "Timer" -> [state EXCEPT !.fired = TRUE]

\* a callback that takes the waker and drops it
Callback_forget(state) ==
    [state |-> [state EXCEPT !.waker = None], woken |-> None]

\* if let Some(waker) = state.waker.take() { waker.wake(); }
Callback_wake(state) ==
    [state |-> [state EXCEPT !.waker = None], woken |-> state.waker]

\* the callback has stored a result that no poll has returned yet
Stored ==
    IF value.kind = "Timer" THEN value.state.fired ELSE value.state.result # None

InitFuture ==
    /\ \E kind \in FutureKinds :
           value = [kind |-> kind, state |-> NewState(kind), mutex |-> "free"]
    /\ call = [task |-> "new", woken |-> FALSE, polls |-> 0, returned |-> <<>>,
                cb |-> "idle", res |-> "", events |-> 0, wakes |-> 0]
    /\ ser = FreshSer
    /\ de = Deserializer_from_bytes(<<>>)
    /\ input = <<>>

\* the executor polls a task when it is spawned and when its waker was woken;
\* poll starts with self.state.lock()
PollLock ==
    /\ call.task = "new" \/ (call.task = "pending" /\ call.woken)
    /\ value.mutex = "free"
    /\ value' = [value EXCEPT !.mutex = "poll"]
    /\ call' = [call EXCEPT !.task = "polling", !.woken = FALSE, !.polls = @ + 1]
    /\ UNCHANGED <<ser, de, input>>

\* the body of poll; the guard is dropped when poll returns
PollReturn ==
    /\ call.task = "polling"
    /\ \E res \in {IF value.kind = "Timer"
                   THEN Timer_poll(value.state, call.polls)
                   ELSE Future_poll(value.state, call.polls)} :
           /\ value' = [value EXCEPT !.state = res.state, !.mutex = "free"]
           /\ call' = IF res.out = None
                       THEN [call EXCEPT !.task = "pending"]
                       ELSE [call EXCEPT !.task = "done",
                                         !.returned = Append(@, res.out[1])]
    /\ UNCHANGED <<ser, de, input>>

\* the event loop calls the callback: once for a query, any number of times
\* for the events of a channel; the callback starts with state.lock()
CallbackLock ==
    /\ call.cb = "idle"
    /\ call.events < (IF value.kind = "ConnectFuture" THEN MaxEvents ELSE 1)
    /\ value.mutex = "free"
    /\ value' = [value EXCEPT !.mutex = "callback"]
    /\ \E res \in CallbackResults(value.kind) :
           call' = [call EXCEPT !.cb = "locked", !.res = res, !.events = @ + 1]
    /\ UNCHANGED <<ser, de, input>>

CallbackStore ==
    /\ call.cb = "locked"
    /\ value' = [value EXCEPT !.state = Callback_store(value.kind, @, call.res)]
    /\ call' = [call EXCEPT !.cb = "stored"]
    /\ UNCHANGED <<ser, de, input>>

\* the waker is taken and woken, and the guard is dropped
CallbackWake ==
    /\ call.cb = "stored"
    /\ \E res \in {Callback_wake(value.state)} :
           /\ value' = [value EXCEPT !.state = res.state, !.mutex = "free"]
           /\ call' = [call EXCEPT !.cb = "idle",
                                    !.woken = @ \/ res.woken # None,
                                    !.wakes = IF res.woken # None THEN @ + 1 ELSE @]
    /\ UNCHANGED <<ser, de, input>>

NextFuture ==
    \/ PollLock
    \/ PollReturn
    \/ CallbackLock
    \/ CallbackStore
    \/ CallbackWake

\* the executor runs a task that is ready to run, and a function that holds
\* the mutex runs to its end; whether an event arrives is up to the peer
SpecFuture ==
    /\ InitFuture
    /\ [][NextFuture]_vars
    /\ WF_vars(PollLock) /\ WF_vars(PollReturn)
    /\ WF_vars(CallbackStore) /\ WF_vars(CallbackWake)

\* C30: no lost wake-up for QueryFuture, ConnectFuture and Timer, under every
\* interleaving of poll and the completion callback on the mutex-protected
\* shared state: once the callback has stored the result, either the poll that
\* follows returns Ready with that result, or the waker registered by an
\* earlier Pending poll is woken by the callback, so that the task is never
\* left asleep with a stored result and every stored result leads to a Ready
\* poll; a poll of QueryFuture or ConnectFuture that returns a stored result
\* takes it out of the state, so that at most one poll returns it.
C30_NoLostWakeUp ==
    /\ []((Stored /\ value.mutex = "free" /\ call.task = "pending") => call.woken)
    /\ [][
           /\ (call.task = "polling" /\ Stored) =>
                 /\ call'.task = "done"
                 /\ call'.returned
                        = Append(call.returned,
                                 IF value.kind = "Timer" THEN "fired"
                                 ELSE value.state.result[1])
                 /\ (value.kind # "Timer" => value'.state.result = None)
           /\ (call.cb = "stored" /\ value.state.waker # None) =>
                 (call'.woken /\ value'.state.waker = None)
           /\ Len(call'.returned) <= 1
        ]_vars
    /\ Stored ~> (call.task = "done")

\* a poll answered Pending, the callback stored the result and woke the waker,
\* and the poll that followed returned Ready with the result
C30_Witness ==
    /\ value.kind = "QueryFuture"
    /\ call.task = "done"
    /\ call.polls = 2
    /\ call.wakes = 1
    /\ call.returned = <<"Ok">>

====
